---- MODULE Spec2Model ----
(***************************************************************************)
(* versioncheck: the version model (version.ts), the resolution algorithm  *)
(* fetchVersion (fetchers.ts) and the check orchestrator checkVersion /    *)
(* checkVersions (main.ts).  Strings are TLA+ strings; TLC evaluates Len,  *)
(* SubSeq, Head, Tail and \o on them.                                      *)
(***************************************************************************)
EXTENDS Integers, Sequences, FiniteSets, TLC

\* Longest candidate list an upstream adapter yields in the model.
MaxCands == 3

\* JavaScript's undefined / null for optional string fields.
Undefined == "<undefined>"

(***************************************************************************)
(* String helpers                                                          *)
(***************************************************************************)
Char(s, i) == SubSeq(s, i, i)

Digits == "0123456789"

HexChars == "0123456789abcdef"

\* UTF-16 code unit order of the characters the model uses.
AsciiOrder == "-.0123456789_abcdefghijklmnopqrstuvwxyz"

\* ICU root collation order of the same characters (localeCompare).
LocaleOrder == "_-.0123456789abcdefghijklmnopqrstuvwxyz"

Contains(alphabet, c) == \E i \in 1..Len(alphabet) : Char(alphabet, i) = c

IsDigit(c) == Contains(Digits, c)

AllIn(s, alphabet) == \A i \in 1..Len(s) : Contains(alphabet, Char(s, i))

IndexIn(alphabet, c) == CHOOSE i \in 1..Len(alphabet) : Char(alphabet, i) = c

\* String.prototype.startsWith
StartsWith(s, p) == Len(p) <= Len(s) /\ SubSeq(s, 1, Len(p)) = p

\* String.prototype.indexOf, 1-based; 0 when absent.
IndexOf(s, c) ==
  IF \E i \in 1..Len(s) : Char(s, i) = c
    THEN CHOOSE i \in 1..Len(s) :
           Char(s, i) = c /\ \A j \in 1..(i - 1) : Char(s, j) # c
    ELSE 0

\* String.prototype.lastIndexOf, 1-based; 0 when absent.
LastIndexOf(s, c) ==
  IF \E i \in 1..Len(s) : Char(s, i) = c
    THEN CHOOSE i \in 1..Len(s) :
           Char(s, i) = c /\ \A j \in (i + 1)..Len(s) : Char(s, j) # c
    ELSE 0

RECURSIVE Split(_, _)
\* String.prototype.split on a one-character separator.
Split(s, c) ==
  LET At(i) == IF i = 0 THEN <<s>>
               ELSE <<SubSeq(s, 1, i - 1)>> \o Split(SubSeq(s, i + 1, Len(s)), c)
  IN At(IndexOf(s, c))

RECURSIVE ToNumber(_)
\* Value of a non-empty string of decimal digits.
ToNumber(s) ==
  IF Len(s) = 0 THEN 0
  ELSE 10 * ToNumber(SubSeq(s, 1, Len(s) - 1))
         + (IndexIn(Digits, Char(s, Len(s))) - 1)

RECURSIVE CompareStrings(_, _, _)
\* Lexicographic comparison under a character order: -1, 0 or 1.
CompareStrings(a, b, order) ==
  IF Len(a) = 0 /\ Len(b) = 0 THEN 0
  ELSE IF Len(a) = 0 THEN -1
  ELSE IF Len(b) = 0 THEN 1
  ELSE LET Heads(x, y) == IF x < y THEN -1
                          ELSE IF x > y THEN 1
                          ELSE CompareStrings(Tail(a), Tail(b), order)
       IN Heads(IndexIn(order, Head(a)), IndexIn(order, Head(b)))

\* String.prototype.localeCompare
localeCompare(a, b) == CompareStrings(a, b, LocaleOrder)

(***************************************************************************)
(* The semver library as version.ts uses it (parse, coerce, clean,         *)
(* compare, satisfies).  A SemVer value is a record; SemNull is null.      *)
(***************************************************************************)
SemNull == [major |-> -1, minor |-> -1, patch |-> -1, prerelease |-> <<>>]

\* A numeric identifier: 0 | [1-9]\d*
NumericId(s) == Len(s) > 0 /\ AllIn(s, Digits) /\ (Len(s) = 1 \/ Head(s) # "0")

\* A prerelease identifier: 0 | [1-9]\d* | \d*[a-zA-Z-][a-zA-Z0-9-]*
PrereleaseId(s) ==
  /\ Len(s) > 0
  /\ AllIn(s, "-0123456789abcdefghijklmnopqrstuvwxyz")
  /\ (AllIn(s, Digits) => NumericId(s))

\* semver.parse (strict): v?MAJOR.MINOR.PATCH(-PRERELEASE)?
semverParse(s) ==
  LET Parsed(nums, pre) ==
        IF /\ Len(nums) = 3
           /\ \A i \in 1..3 : NumericId(nums[i])
           /\ \A i \in 1..Len(pre) : PrereleaseId(pre[i])
          THEN [major |-> ToNumber(nums[1]), minor |-> ToNumber(nums[2]),
                patch |-> ToNumber(nums[3]), prerelease |-> pre]
          ELSE SemNull
      Parts(body, dash) ==
        Parsed(Split(IF dash = 0 THEN body ELSE SubSeq(body, 1, dash - 1), "."),
               IF dash = 0 THEN <<>>
               ELSE Split(SubSeq(body, dash + 1, Len(body)), "."))
      Body(body) == Parts(body, IndexOf(body, "-"))
  IN Body(IF StartsWith(s, "v") THEN Tail(s) ELSE s)

\* End of the run of digits that starts at position i.
DigitRunEnd(s, i) ==
  CHOOSE j \in i..Len(s) :
    /\ \A k \in i..j : IsDigit(Char(s, k))
    /\ (j = Len(s) \/ ~IsDigit(Char(s, j + 1)))

\* semver.coerce: the first MAJOR(.MINOR(.PATCH)?)? in the string, parsed
\* strictly after the missing parts are filled with 0.
semverCoerce(s) ==
  IF ~\E i \in 1..Len(s) : IsDigit(Char(s, i)) THEN SemNull
  ELSE
    LET \* Whether a "." and a digit follow position e.
        More(e) == e + 2 <= Len(s) /\ Char(s, e + 1) = "." /\ IsDigit(Char(s, e + 2))
        Patch(major, minor, e2, has3) ==
          semverParse(major \o "." \o minor \o "."
                        \o (IF has3 THEN SubSeq(s, e2 + 2, DigitRunEnd(s, e2 + 2))
                            ELSE "0"))
        Minor(major, e1, has2, e2) ==
          Patch(major, IF has2 THEN SubSeq(s, e1 + 2, e2) ELSE "0", e2,
                has2 /\ More(e2))
        Major(i1, e1, has2) ==
          Minor(SubSeq(s, i1, e1), e1, has2,
                IF has2 THEN DigitRunEnd(s, e1 + 2) ELSE e1)
        RunFrom(i1, e1) == Major(i1, e1, More(e1))
        From(i1) == RunFrom(i1, DigitRunEnd(s, i1))
    IN From(CHOOSE i \in 1..Len(s) :
              IsDigit(Char(s, i)) /\ \A j \in 1..(i - 1) : ~IsDigit(Char(s, j)))

RECURSIVE NumberToString(_)
NumberToString(n) ==
  IF n < 10 THEN Char(Digits, n + 1)
  ELSE NumberToString(n \div 10) \o Char(Digits, (n % 10) + 1)

RECURSIVE JoinDots(_)
JoinDots(ids) ==
  IF Len(ids) = 0 THEN ""
  ELSE IF Len(ids) = 1 THEN ids[1]
  ELSE ids[1] \o "." \o JoinDots(Tail(ids))

\* SemVer.format: the canonical string of a parsed version.
semverFormat(v) ==
  NumberToString(v.major) \o "." \o NumberToString(v.minor) \o "."
    \o NumberToString(v.patch)
    \o (IF Len(v.prerelease) = 0 THEN "" ELSE "-" \o JoinDots(v.prerelease))

RECURSIVE StripLeadingV(_)
\* replace(/^[=v]+/, "")
StripLeadingV(s) ==
  IF Len(s) > 0 /\ Head(s) = "v" THEN StripLeadingV(Tail(s)) ELSE s

\* semver.clean: canonical string, or Undefined for null.
semverClean(s) ==
  LET Clean(p) == IF p = SemNull THEN Undefined ELSE semverFormat(p)
  IN Clean(semverParse(StripLeadingV(s)))

Sign(n) == IF n < 0 THEN -1 ELSE IF n > 0 THEN 1 ELSE 0

\* compareIdentifiers: numeric identifiers numerically and before
\* alphanumeric ones, which compare by code unit.
compareIdentifiers(a, b) ==
  LET Compared(anum, bnum) ==
        IF anum /\ bnum THEN Sign(ToNumber(a) - ToNumber(b))
        ELSE IF anum THEN -1
        ELSE IF bnum THEN 1
        ELSE CompareStrings(a, b, AsciiOrder)
  IN Compared(AllIn(a, Digits), AllIn(b, Digits))

RECURSIVE comparePre(_, _)
\* SemVer.comparePre on the identifier lists.
comparePre(a, b) ==
  IF Len(a) = 0 /\ Len(b) = 0 THEN 0
  ELSE IF Len(a) = 0 THEN -1
  ELSE IF Len(b) = 0 THEN 1
  ELSE LET Next1(c) == IF c # 0 THEN c ELSE comparePre(Tail(a), Tail(b))
       IN Next1(compareIdentifiers(Head(a), Head(b)))

\* semver.compare
semverCompare(a, b) ==
  IF a.major # b.major THEN Sign(a.major - b.major)
  ELSE IF a.minor # b.minor THEN Sign(a.minor - b.minor)
  ELSE IF a.patch # b.patch THEN Sign(a.patch - b.patch)
  ELSE IF Len(a.prerelease) = 0 /\ Len(b.prerelease) > 0 THEN 1
  ELSE IF Len(a.prerelease) > 0 /\ Len(b.prerelease) = 0 THEN -1
  ELSE comparePre(a.prerelease, b.prerelease)

\* One part of an x-range: a numeric identifier or a wildcard.
IsWildcard(s) == s \in {"x", "*"}

\* semver.satisfies for the range forms the configurations use: "" and "*"
\* (any), x-ranges "M", "M.x", "M.m", "M.m.x", and an exact "M.m.p[-pre]".
\* Any other string is an invalid range, which satisfies reports as false.
\* A version with a prerelease tag satisfies only a comparator that names
\* the same M.m.p with a prerelease, so only the exact form.
semverSatisfies(v, range) ==
  LET Test(parts, exact) ==
        IF range = "" \/ IsWildcard(range) THEN Len(v.prerelease) = 0
        ELSE IF exact # SemNull /\ ~StartsWith(range, "v")
          THEN semverCompare(v, exact) = 0
        ELSE IF Len(v.prerelease) > 0 THEN FALSE
        ELSE IF Len(parts) \in 1..3 /\ NumericId(parts[1])
                  /\ \A i \in 2..Len(parts) :
                       NumericId(parts[i]) \/ IsWildcard(parts[i])
          THEN /\ v.major = ToNumber(parts[1])
               /\ (Len(parts) >= 2 /\ ~IsWildcard(parts[2]))
                    => v.minor = ToNumber(parts[2])
               /\ (Len(parts) = 3 /\ ~IsWildcard(parts[2]) /\ ~IsWildcard(parts[3]))
                    => v.patch = ToNumber(parts[3])
        ELSE FALSE
  IN Test(Split(range, "."), semverParse(range))

(***************************************************************************)
(* Version model (version.ts).  A Version is a record; kind is the class.  *)
(* A constructor that throws yields ParseError.                            *)
(***************************************************************************)
CommitLength == 40

NixpkgsPrefix == "nixpkgs-"

NoVersion ==
  [kind |-> "none", main |-> Undefined, app |-> Undefined, prerelease |-> FALSE,
   commit |-> Undefined, semantic |-> SemNull]

ParseError ==
  [kind |-> "ParseError", main |-> Undefined, app |-> Undefined,
   prerelease |-> FALSE, commit |-> Undefined, semantic |-> SemNull]

\* COMMIT_REGEX = /^[0-9a-f]{40}$/
MatchesCommit(main) == Len(main) = CommitLength /\ AllIn(main, HexChars)

\* NIXPKGS_REGEX = /^nixpkgs-[\w\.]+\.([\da-f]+)$/ : the capture is what
\* follows the last dot.
MatchesNixpkgs(main) ==
  LET Match(d) ==
        /\ StartsWith(main, NixpkgsPrefix)
        /\ d > Len(NixpkgsPrefix) + 1
        /\ d < Len(main)
        /\ AllIn(SubSeq(main, Len(NixpkgsPrefix) + 1, d - 1),
                 "._0123456789abcdefghijklmnopqrstuvwxyz")
        /\ AllIn(SubSeq(main, d + 1, Len(main)), HexChars)
  IN Match(LastIndexOf(main, "."))

NixpkgsCommit(main) == SubSeq(main, LastIndexOf(main, ".") + 1, Len(main))

\* cleanVersion: semver.clean(version) ?? version.replace(/^v([0-9])/, "$1")
cleanVersion(version) ==
  LET OrElse(cleaned) ==
        IF cleaned # Undefined THEN cleaned
        ELSE IF Len(version) >= 2 /\ Head(version) = "v" /\ IsDigit(Char(version, 2))
          THEN Tail(version)
        ELSE version
  IN OrElse(semverClean(version))

CommitVersion(main) ==
  [kind |-> "Commit", main |-> main, app |-> Undefined, prerelease |-> FALSE,
   commit |-> Undefined, semantic |-> SemNull]

NixpkgsVersion(main, commit) ==
  [kind |-> "Nixpkgs", main |-> main, app |-> Undefined, prerelease |-> FALSE,
   commit |-> commit, semantic |-> SemNull]

\* new SemanticVersion(main, app, prerelease); prerelease is "true", "false"
\* or Undefined.
SemanticVersion(main, app, prerelease) ==
  LET \* semver.parse(main) ?? semver.coerce(main)
      OrCoerce(parsed) == IF parsed # SemNull THEN parsed ELSE semverCoerce(main)
      Construct(semantic) ==
        IF semantic = SemNull THEN ParseError
        ELSE [kind |-> "Semantic",
              main |-> cleanVersion(main),
              app |-> IF app \in {Undefined, ""} THEN app ELSE cleanVersion(app),
              prerelease |-> IF prerelease = Undefined
                               THEN Len(semantic.prerelease) > 0
                               ELSE prerelease = "true",
              commit |-> Undefined,
              semantic |-> semantic]
  IN Construct(OrCoerce(semverParse(main)))

\* Classification that tries the semantic reading before the commit one.
makeVersionSemanticFirst(main, app, prerelease) ==
  IF MatchesNixpkgs(main) THEN NixpkgsVersion(main, NixpkgsCommit(main))
  ELSE IF SemanticVersion(main, app, prerelease) # ParseError
    THEN SemanticVersion(main, app, prerelease)
  ELSE IF MatchesCommit(main) THEN CommitVersion(main)
  ELSE ParseError

makeVersion(main, app, prerelease) ==
  IF MatchesNixpkgs(main) THEN NixpkgsVersion(main, NixpkgsCommit(main))
  ELSE IF MatchesCommit(main) THEN CommitVersion(main)
  ELSE SemanticVersion(main, app, prerelease)

\* this.compare(other)
compare(this, other) ==
  LET OrLocale(semanticCompare) ==
        IF semanticCompare # 0 THEN semanticCompare
        ELSE localeCompare(this.main, other.main)
  IN IF this.kind = "Semantic" /\ other.kind = "Semantic"
       THEN OrLocale(semverCompare(this.semantic, other.semantic))
       ELSE localeCompare(this.main, other.main)

\* this.satisfies(spec)
satisfies(this, spec) ==
  IF this.kind = "Semantic" THEN semverSatisfies(this.semantic, spec)
  ELSE this.main = spec

\* equivalent that also lets a Commit substitute the Nixpkgs version whose
\* short hash it starts with.
equivalentSymmetric(this, other) ==
  IF this.kind = "Nixpkgs" /\ other.kind = "Commit"
    THEN StartsWith(other.main, this.commit)
  ELSE IF this.kind = "Commit" /\ other.kind = "Nixpkgs"
    THEN StartsWith(this.main, other.commit)
    ELSE this.main = other.main

\* this.equivalent(other)
equivalent(this, other) ==
  IF this.kind = "Nixpkgs" /\ other.kind = "Commit"
    THEN StartsWith(other.main, this.commit)
    ELSE this.main = other.main

\* applyRegexpRaw that leaves the text as it is.
applyRegexpRawUnnarrowed(raw, regexp, onFail) == raw

\* applyRegexpRaw for patterns of the forms LITERAL, LITERAL.* and
\* LITERAL(.*): raw.match gives null (<<>> here) when the literal does not
\* occur, else the match array for its leftmost occurrence, the whole
\* match first and then the capture group; with the s flag .* runs to the
\* end of the text.
applyRegexpRaw(raw, regexp, onFail) ==
  LET Suffix(n) ==
        IF Len(regexp) >= n THEN SubSeq(regexp, Len(regexp) - n + 1, Len(regexp))
        ELSE ""
      Literal(n) == SubSeq(regexp, 1, Len(regexp) - n)
      Leftmost(literal) ==
        IF \E i \in 1..(Len(raw) - Len(literal) + 1) :
              SubSeq(raw, i, i + Len(literal) - 1) = literal
          THEN CHOOSE i \in 1..(Len(raw) - Len(literal) + 1) :
                 /\ SubSeq(raw, i, i + Len(literal) - 1) = literal
                 /\ \A j \in 1..(i - 1) : SubSeq(raw, j, j + Len(literal) - 1) # literal
          ELSE 0
      Grouped(literal, at) ==
        IF at = 0 THEN <<>>
        ELSE <<SubSeq(raw, at, Len(raw)), SubSeq(raw, at + Len(literal), Len(raw))>>
      Open(at) == IF at = 0 THEN <<>> ELSE <<SubSeq(raw, at, Len(raw))>>
      Plain(literal, at) == IF at = 0 THEN <<>> ELSE <<literal>>
      match ==
        IF Suffix(4) = "(.*)" THEN Grouped(Literal(4), Leftmost(Literal(4)))
        ELSE IF Suffix(2) = ".*" THEN Open(Leftmost(Literal(2)))
        ELSE Plain(regexp, Leftmost(regexp))
      Narrowed(result) ==
        IF result = <<>> THEN onFail
        ELSE IF Len(result) > 1 THEN result[2]
        ELSE result[1]
  IN \* if (regexp): undefined and "" are falsy
     IF regexp # Undefined /\ regexp # "" THEN Narrowed(match) ELSE raw

\* applyRegexp: onFail returns null, written "<null>".
applyRegexp(raw, regexp) == applyRegexpRaw(raw, regexp, "<null>")

\* requireRegexp: onFail throws; the outcome is the narrowed text or the
\* message of the error.
requireRegexp(raw, regexp) ==
  LET Outcome(version) ==
        IF version = "<throw>"
          THEN [threw |-> TRUE, value |-> "No match for " \o regexp \o " in " \o raw]
          ELSE [threw |-> FALSE, value |-> version]
  IN Outcome(applyRegexpRaw(raw, regexp, "<throw>"))

(***************************************************************************)
(* Fetch adapters and the resolution algorithm fetchVersion (fetchers.ts). *)
(* An adapter's input is the decoded upstream response: ok says whether    *)
(* the request and the decoding succeeded, entries lists the raw           *)
(* candidates as [main, app, prerelease].                                  *)
(***************************************************************************)
\* The Version an adapter makes of one raw candidate.
EntryVersion(e, type) ==
  IF type = "github_release" THEN makeVersion(e.main, Undefined, e.prerelease)
  ELSE IF type = "helm" THEN makeVersion(e.main, e.app, Undefined)
  ELSE makeVersion(e.main, Undefined, Undefined)

\* entries.map(makeVersion) with the adapter's choice of arguments.
MapEntries(entries, type) ==
  [i \in 1..Len(entries) |-> EntryVersion(entries[i], type)] \o <<>>

Threw == [isArray |-> TRUE, threw |-> TRUE, versions |-> <<>>]

\* fetchVersions with fetchGithubCommit returning the bare Version instead of
\* a one-element array.
fetchVersionsSingle(spec, response) ==
  LET Adapter(versions) ==
        IF ~response.ok THEN Threw
        ELSE IF spec.type \in {"helm", "html"} /\ Len(response.entries) = 0 THEN Threw
        ELSE IF \E i \in 1..Len(versions) : versions[i] = ParseError THEN Threw
        ELSE [isArray |-> spec.type # "github_commit", threw |-> FALSE,
              versions |-> versions]
  IN Adapter(MapEntries(response.entries, spec.type))

\* fetchVersions: dispatch on spec.type.  Every adapter returns an array;
\* fetchHelm throws on an empty chart list, fetchHtml on no element, and
\* any adapter throws when the request fails or a makeVersion throws.
fetchVersions(spec, response) ==
  LET Adapter(versions) ==
        IF ~response.ok THEN Threw
        ELSE IF spec.type \in {"helm", "html"} /\ Len(response.entries) = 0 THEN Threw
        ELSE IF \E i \in 1..Len(versions) : versions[i] = ParseError THEN Threw
        ELSE [isArray |-> TRUE, threw |-> FALSE, versions |-> versions]
  IN Adapter(MapEntries(response.entries, spec.type))

NoResult ==
  [version |-> NoVersion, latest |-> NoVersion, versions |-> <<>>,
   hasVersions |-> FALSE]

Pending == [status |-> "pending", reason |-> "", value |-> NoResult]

Rejected(reason) == [status |-> "rejected", reason |-> reason, value |-> NoResult]

Fulfilled(value) == [status |-> "fulfilled", reason |-> "", value |-> value]

\* A test for presence only: the empty string passes.
TruthyDefined(str) == str # Undefined

\* spec.versionSpec ? ... : ... (undefined and "" are falsy)
Truthy(str) == str # Undefined /\ str # ""

\* validVersions without the prerelease filter.
validVersionsUnfiltered(spec, versions) == versions

\* spec.prerelease ? versions : versions.filter(({prerelease}) => !prerelease)
validVersions(spec, versions) ==
  IF spec.prerelease THEN versions
  ELSE SelectSeq(versions, LAMBDA v : ~v.prerelease)

IndexPermutations(n) ==
  {p \in [1..n -> 1..n] : \A i, j \in 1..n : p[i] = p[j] => i = j}

\* The comparator's table on a list: compare(list[i], list[j]).
CompareTable(list) ==
  [i \in 1..Len(list) |->
     [j \in 1..Len(list) |-> compare(list[i], list[j])] \o <<>>] \o <<>>

\* Whether (a, b) => -a.compare(b) is a consistent comparator on the list.
ConsistentComparator(list) ==
  LET Consistent(c) ==
        /\ \A i, j \in 1..Len(list) : Sign(c[i][j]) = -Sign(c[j][i])
        /\ \A i, j, k \in 1..Len(list) :
             (c[i][j] <= 0 /\ c[j][k] <= 0) => c[i][k] <= 0
  IN Consistent(CompareTable(list))

\* validVersions.sort((a, b) => -a.compare(b)): the stable descending
\* order; under an inconsistent comparator the order is implementation
\* defined, so any permutation.
sort(list) ==
  LET Stable(n, c) == {p \in IndexPermutations(n) :
                         \A i, j \in 1..n : i < j =>
                           \/ c[p[i]][p[j]] > 0
                           \/ c[p[i]][p[j]] = 0 /\ p[i] < p[j]}
      Orders(n) == IF ConsistentComparator(list) THEN Stable(n, CompareTable(list))
                   ELSE IndexPermutations(n)
  IN {[i \in 1..Len(list) |-> list[p[i]]] : p \in Orders(Len(list))}

\* find that falls back to the newest candidate when none satisfies.
findOrLatest(list, versionSpec) ==
  IF \E i \in 1..Len(list) : satisfies(list[i], versionSpec)
    THEN list[CHOOSE i \in 1..Len(list) :
                /\ satisfies(list[i], versionSpec)
                /\ \A j \in 1..(i - 1) : ~satisfies(list[j], versionSpec)]
    ELSE list[1]

\* validVersions.find((version) => version.satisfies(spec.versionSpec))
find(list, versionSpec) ==
  IF \E i \in 1..Len(list) : satisfies(list[i], versionSpec)
    THEN list[CHOOSE i \in 1..Len(list) :
                /\ satisfies(list[i], versionSpec)
                /\ \A j \in 1..(i - 1) : ~satisfies(list[j], versionSpec)]
    ELSE NoVersion

\* fetchVersion after the adapter returned out and the sort produced sorted.
fetchVersion(spec, out, sorted) ==
  LET Resolve(latest, version) ==
        IF out.threw THEN Rejected("adapter")
        ELSE IF ~out.isArray
          THEN Fulfilled([version |-> out.versions[1], latest |-> NoVersion,
                          versions |-> <<>>, hasVersions |-> FALSE])
        ELSE IF Len(out.versions) = 0 THEN Rejected("No versions found")
        ELSE IF Len(validVersions(spec, out.versions)) = 0
          THEN Rejected("No valid versions")
        ELSE IF version = NoVersion THEN Rejected("No compatible version")
        ELSE Fulfilled([version |-> version, latest |-> latest,
                        versions |-> sorted, hasVersions |-> TRUE])
  IN Resolve(sorted[1],
             IF Truthy(spec.versionSpec) THEN find(sorted, spec.versionSpec)
             ELSE sorted[1])

\* The results fetchVersion can produce for one adapter response.
fetchVersionOutcomes(spec, response) ==
  LET Outcomes(out) ==
        {fetchVersion(spec, out, sorted) :
           sorted \in sort(validVersions(spec, out.versions))}
  IN Outcomes(fetchVersions(spec, response))

(***************************************************************************)
(* Inputs of the model: what the upstream services answer and what the     *)
(* usage files hold.                                                       *)
(***************************************************************************)
Entry(main, app, prerelease) == [main |-> main, app |-> app, prerelease |-> prerelease]

\* Three commit hashes; the first two start with the short hashes of the
\* channel labels below.
HashA == "a1b2c3d400000000000000000000000000000000"

HashD == "d4e5f6a700000000000000000000000000000000"

Hash1 == "1a00000000000000000000000000000000000000"

ChannelA == "nixpkgs-23.05pre.a1b2c3"

ChannelD == "nixpkgs-23.11pre.d4e5f6"

\* Raw candidates each kind of upstream can list.
Entries(type) ==
  IF type = "github_release"
    THEN {Entry("2.1.0", Undefined, "false"), Entry("v2.0.5", Undefined, "false"),
          Entry("2.0.1", Undefined, "false"), Entry("2.2.0-rc1", Undefined, "true"),
          Entry("2.3.0", Undefined, "true")}
  ELSE IF type = "github_tag"
    THEN {Entry(m, Undefined, Undefined) :
            m \in {"2.1.0", "2.0.5", "2.2.0-rc1", "10.0.0", Hash1, "latest"}}
  ELSE IF type = "helm"
    THEN {Entry("4.2.0", "1.9", Undefined), Entry("4.1.0", "1.8", Undefined),
          Entry("4.1.0", Undefined, Undefined), Entry("5.0.0-beta1", "2.0", Undefined)}
  ELSE IF type = "github_commit"
    THEN {Entry(m, Undefined, Undefined) : m \in {HashA, HashD, Hash1}}
  ELSE {Entry(m, Undefined, Undefined) : m \in {ChannelA, ChannelD, "nixpkgs-22.11-darwin"}}

SeqsUpTo(S, n) == UNION {[1..k -> S] : k \in 0..n}

FailedResponse == [ok |-> FALSE, entries |-> <<>>]

\* The responses an upstream of the given kind can produce: a failed
\* request, or a listing (one commit for github_commit).
Responses(type) ==
  {FailedResponse} \cup
    {[ok |-> TRUE, entries |-> l] :
       l \in IF type = "github_commit" THEN [1..1 -> Entries(type)]
             ELSE SeqsUpTo(Entries(type), MaxCands)}

FetchTypes == {"github_release", "github_tag", "github_commit", "helm", "nixpkgs"}

VersionSpecs == {Undefined, "", "2.0.x", "10.x", "4.x"}

FetchSpecs ==
  [type : FetchTypes, prerelease : BOOLEAN, versionSpec : VersionSpecs]

(***************************************************************************)
(* Usage extraction (usage.ts), reduced to its outcome: the file read      *)
(* fails, or the parser extracts a version string.                         *)
(***************************************************************************)
UPending == [status |-> "pending", value |-> NoVersion]

URejected == [status |-> "rejected", value |-> NoVersion]

UFulfilled(version) == [status |-> "fulfilled", value |-> version]

\* getUsage: getFile, the parser, then makeVersion (which may throw).
getUsage(read) ==
  LET Settled(version) ==
        IF version = ParseError THEN URejected ELSE UFulfilled(version)
  IN IF ~read.ok THEN URejected
     ELSE Settled(makeVersion(read.version, Undefined, Undefined))

\* What a usage file can hold.
UsageStrings == {"4.2.0", "v4.1.0", HashD, "latest"}

UsageReads ==
  {[ok |-> FALSE, version |-> Undefined]} \cup
    {[ok |-> TRUE, version |-> v] : v \in UsageStrings}

(***************************************************************************)
(* Check orchestrator (main.ts).  A JavaScript object is its sequence of   *)
(* keys in insertion order plus a function on them.                        *)
(***************************************************************************)
SeqToSet(seq) == {seq[i] : i \in 1..Len(seq)}

\* An integer-like property name (an array index).
IsIndexKey(k) == NumericId(k)

\* Object.keys / Object.values / Object.entries order: integer-like keys in
\* ascending numeric order, then the other keys in insertion order.
ObjectKeys(inserted) ==
  LET Ascending(indexKeys) ==
        CHOOSE q \in [1..Cardinality(indexKeys) -> indexKeys] :
          \A i, j \in 1..Cardinality(indexKeys) :
            i < j => ToNumber(q[i]) < ToNumber(q[j])
  IN Ascending({k \in SeqToSet(inserted) : IsIndexKey(k)})
       \o SelectSeq(inserted, LAMBDA k : ~IsIndexKey(k))

\* options.usage: keep only the usage named by the filter, then drop the
\* dependencies left without usages.
applyUsageFilter(cfg, usageFilter) ==
  IF ~Truthy(usageFilter) THEN cfg
  ELSE LET usages == [d \in SeqToSet(cfg.deps) |->
                        SelectSeq(cfg.usages[d], LAMBDA k : k = usageFilter)]
       IN [deps |-> SelectSeq(cfg.deps, LAMBDA d : Len(usages[d]) > 0),
           upstream |-> cfg.upstream,
           usages |-> usages]

NoCheck ==
  [name |-> Undefined, upstreamNull |-> TRUE, upstream |-> NoResult,
   outdated |-> <<>>, errored |-> <<>>]

\* fullVersion that always reports the usage's own Version.
fullVersionOwn(versions, version) == version

\* upstreamVersion.versions.find(({main}) => main === version.main) ?? version
fullVersion(versions, version) ==
  IF \E i \in 1..Len(versions) : versions[i].main = version.main
    THEN versions[CHOOSE i \in 1..Len(versions) :
                    /\ versions[i].main = version.main
                    /\ \A j \in 1..(i - 1) : versions[j].main # version.main]
    ELSE version

\* The test comparing the app version as well as the main version.
isOutdatedApp(upstreamVersion, version) ==
  \/ version.main # upstreamVersion.version.main
  \/ version.app # upstreamVersion.version.app

\* The test that puts a resolved usage into outdated.
isOutdated(upstreamVersion, version) == version.main # upstreamVersion.version.main

\* checkVersionResult without the upstreamVersion !== null guard.
checkVersionResultNoGuard(name, usageNames, upstreamResult, restResult) ==
  LET keys == ObjectKeys(usageNames)
      upstreamVersion == upstreamResult.value
      rest == SelectSeq(keys, LAMBDA k : restResult[k].status = "fulfilled")
      errored == SelectSeq(keys, LAMBDA k : restResult[k].status # "fulfilled")
      outdatedKeys ==
        {k \in SeqToSet(rest) : isOutdated(upstreamVersion, restResult[k].value)}
  IN [name |-> name,
      upstreamNull |-> upstreamResult.status # "fulfilled",
      upstream |-> upstreamVersion,
      outdated |-> [k \in outdatedKeys |->
                      IF upstreamVersion.hasVersions
                        THEN fullVersion(upstreamVersion.versions, restResult[k].value)
                        ELSE restResult[k].value],
      errored |-> errored]

\* checkVersionResult that compares every usage, resolved or not.
checkVersionResultAllRest(name, usageNames, upstreamResult, restResult) ==
  LET keys == ObjectKeys(usageNames)
      upstreamVersion == upstreamResult.value
      errored == SelectSeq(keys, LAMBDA k : restResult[k].status # "fulfilled")
      outdatedKeys ==
        IF upstreamResult.status = "fulfilled"
          THEN {k \in SeqToSet(keys) : isOutdated(upstreamVersion, restResult[k].value)}
          ELSE {}
  IN [name |-> name,
      upstreamNull |-> upstreamResult.status # "fulfilled",
      upstream |-> upstreamVersion,
      outdated |-> [k \in outdatedKeys |->
                      IF upstreamVersion.hasVersions
                        THEN fullVersion(upstreamVersion.versions, restResult[k].value)
                        ELSE restResult[k].value],
      errored |-> errored]

\* checkVersion after Promise.allSettled: the result built from the
\* settled upstream promise and the settled usage promises.
checkVersionResult(name, usageNames, upstreamResult, restResult) ==
  LET keys == ObjectKeys(usageNames)
      upstreamVersion == upstreamResult.value
      rest == SelectSeq(keys, LAMBDA k : restResult[k].status = "fulfilled")
      errored == SelectSeq(keys, LAMBDA k : restResult[k].status # "fulfilled")
      outdatedKeys ==
        IF upstreamResult.status = "fulfilled"
          THEN {k \in SeqToSet(rest) : isOutdated(upstreamVersion, restResult[k].value)}
          ELSE {}
  IN [name |-> name,
      upstreamNull |-> upstreamResult.status # "fulfilled",
      upstream |-> upstreamVersion,
      outdated |-> [k \in outdatedKeys |->
                      IF upstreamVersion.hasVersions
                        THEN fullVersion(upstreamVersion.versions, restResult[k].value)
                        ELSE restResult[k].value],
      errored |-> errored]

\* Promise.all instead of Promise.allSettled: resolved once every promise
\* is fulfilled, or as soon as one is rejected.
allOrFirstRejected(upstreamResult, restResult) ==
  \/ /\ upstreamResult.status = "fulfilled"
     /\ \A k \in DOMAIN restResult : restResult[k].status = "fulfilled"
  \/ upstreamResult.status = "rejected"
  \/ \E k \in DOMAIN restResult : restResult[k].status = "rejected"

\* Promise.allSettled(promises) has resolved: no promise is pending.
allSettled(upstreamResult, restResult) ==
  /\ upstreamResult.status # "pending"
  /\ \A k \in DOMAIN restResult : restResult[k].status # "pending"

\* The filter keeping every check that has something to report.
filterReported(checkSeq) ==
  SelectSeq(checkSeq, LAMBDA c : DOMAIN c.outdated # {} \/ Len(c.errored) > 0 \/ c.upstreamNull)

\* checks.filter(({outdated}) => Object.entries(outdated).length > 0)
filterOutdated(checkSeq) == SelectSeq(checkSeq, LAMBDA c : DOMAIN c.outdated # {})

\* The configurations of the runs: two tracked dependencies, a Helm chart
\* and the nixpkgs channel, with the usages in their order of declaration.
HelmUpstream(versionSpec) ==
  [type |-> "helm", prerelease |-> FALSE, versionSpec |-> versionSpec]

NixpkgsUpstream == [type |-> "nixpkgs", prerelease |-> FALSE, versionSpec |-> Undefined]

Config(helmSpec, helmUsages, nixUsages) ==
  [deps |-> <<"ingress", "nixpkgs">>,
   upstream |-> [d \in {"ingress", "nixpkgs"} |->
                   IF d = "ingress" THEN HelmUpstream(helmSpec) ELSE NixpkgsUpstream],
   usages |-> [d \in {"ingress", "nixpkgs"} |->
                 IF d = "ingress" THEN helmUsages ELSE nixUsages]]

Configs ==
  {Config(Undefined, <<"production", "staging">>, <<"flake">>),
   Config("4.1.x", <<"10", "9">>, <<"production">>)}

\* What the upstream of a dependency answers in a run.
UpstreamResponses(type) ==
  IF type = "helm"
    THEN {FailedResponse,
          [ok |-> TRUE, entries |-> <<Entry("4.1.0", "1.8", Undefined),
                                      Entry("4.2.0", "1.9", Undefined)>>]}
    ELSE {FailedResponse,
          [ok |-> TRUE, entries |-> <<Entry(ChannelA, Undefined, Undefined),
                                      Entry(ChannelD, Undefined, Undefined)>>]}

(***************************************************************************)
(* State                                                                   *)
(***************************************************************************)
VARIABLES
  fspec,          \* fetchVersion: the Fetch spec of the call
  fresponse,      \* fetchVersion: what the upstream answered
  fresult,        \* fetchVersion: the settled promise (Pending before)
  declared,       \* checkVersions: the loaded configuration file
  options,        \* checkVersions: the command line options
  pc,             \* checkVersions: "start", "running" or "done"
  config,         \* checkVersions: the configuration after the usage filter
  upstreamResult, \* per dependency: the promise of fetchVersion
  restResult,     \* per dependency and usage: the promise of getUsage
  checks,         \* per dependency: the CheckResult, NoCheck before
  report,         \* checkVersions: the results handed to the table
  settleOrder,    \* per dependency: its tasks in the order they settled
  vraw,           \* makeVersion: the two strings given, <<>> before
  vmade,          \* makeVersion: the two Versions made of them
  narrowed,       \* regexp narrowing: the call and its outcome, <<>> before
  cacheDb,        \* Cache: the fetch table, url -> body
  update,         \* FetchContext.update
  tasks,          \* the fetch tasks of the run, <<>> before they are created
  cache0,         \* the fetch table when the run started
  requests,       \* the network requests issued, as <<task, url>>, in order
  reads,          \* the getBody calls, as <<task, url>>, in order
  writes,         \* the saveBody calls, as <<task, url, body>>, in order
  source,         \* getFile: the FileSource of the call
  context,        \* getFile: the UsageContext of the call
  newPath,        \* normalizePaths: the path being rewritten
  changed,        \* normalizePaths: a substitution changed the path in this pass
  aliasIdx,       \* normalizePaths: the alias entry the for loop is at
  fpc,            \* getFile: position of the call, "idle" before
  file            \* getFile: how the text was obtained or the error thrown

fetchVars == <<fspec, fresponse, fresult>>

checkVars ==
  <<declared, options, pc, config, upstreamResult, restResult, checks, report,
    settleOrder>>

versionVars == <<vraw, vmade, narrowed>>

cacheVars == <<cacheDb, update, tasks, cache0, requests, reads, writes>>

\* The variables of the units exercised on their own.
pathVars == <<source, context, newPath, changed, aliasIdx, fpc, file>>

unitVars == <<versionVars, cacheVars, pathVars>>

vars == <<fspec, fresponse, fresult, declared, options, pc, config,
          upstreamResult, restResult, checks, report, settleOrder, vraw, vmade,
          narrowed, cacheDb, update, tasks, cache0, requests, reads, writes,
          source, context, newPath, changed, aliasIdx, fpc, file>>

NoResponse == [ok |-> FALSE, entries |-> <<Entry(Undefined, Undefined, Undefined)>>]

EmptyConfig == [deps |-> <<>>, upstream |-> <<>>, usages |-> <<>>]

Init ==
  /\ fspec \in FetchSpecs
  /\ fresponse = NoResponse
  /\ fresult = Pending
  /\ declared \in Configs
  /\ options \in [outdated : BOOLEAN, usage : {Undefined, "production"}]
  /\ pc = "start"
  /\ config = EmptyConfig
  /\ upstreamResult = <<>>
  /\ restResult = <<>>
  /\ checks = <<>>
  /\ report = <<>>
  /\ settleOrder = <<>>
  /\ vraw = <<>>
  /\ vmade = <<>>
  /\ narrowed = <<>>
  /\ cacheDb = <<>>
  /\ update = FALSE
  /\ tasks = <<>>
  /\ cache0 = <<>>
  /\ requests = <<>>
  /\ reads = <<>>
  /\ writes = <<>>
  /\ source = <<>>
  /\ context = <<>>
  /\ newPath = ""
  /\ changed = FALSE
  /\ aliasIdx = 0
  /\ fpc = "idle"
  /\ file = <<>>

\* fetchVersion(spec, context): await fetchVersions, then resolve.
FetchVersion ==
  /\ fresult = Pending
  /\ \E response \in Responses(fspec.type) :
       \E result \in fetchVersionOutcomes(fspec, response) :
         /\ fresponse' = response
         /\ fresult' = result
  /\ UNCHANGED fspec
  /\ UNCHANGED checkVars
  /\ UNCHANGED unitVars

FetchNext == FetchVersion

\* The initial states of a lone fetchVersion call: no run of checkVersions.
InitFetch ==
  /\ Init
  /\ declared = Config(Undefined, <<"production", "staging">>, <<"flake">>)
  /\ options = [outdated |-> FALSE, usage |-> Undefined]

\* One call of fetchVersion on every kind of upstream and response.
SpecFetch == InitFetch /\ [][FetchNext]_vars

\* checkVersions up to Promise.all: filter the configuration and start one
\* checkVersion per dependency, each creating its promises.
CheckVersionsStart ==
  /\ pc = "start"
  /\ LET cfg == applyUsageFilter(declared, options.usage)
         deps == SeqToSet(cfg.deps)
     IN /\ config' = cfg
        /\ upstreamResult' = [d \in deps |-> Pending]
        /\ restResult' = [d \in deps |-> [k \in SeqToSet(cfg.usages[d]) |-> UPending]]
        /\ checks' = [d \in deps |-> NoCheck]
        /\ settleOrder' = [d \in deps |-> <<>>]
  /\ pc' = "running"
  /\ UNCHANGED <<declared, options, report>>
  /\ UNCHANGED fetchVars
  /\ UNCHANGED unitVars

\* The fetchVersion promise of dependency d settles.
SettleUpstream(d) ==
  /\ pc = "running"
  /\ upstreamResult[d].status = "pending"
  /\ \E response \in UpstreamResponses(config.upstream[d].type) :
       \E result \in fetchVersionOutcomes(config.upstream[d], response) :
         upstreamResult' = [upstreamResult EXCEPT ![d] = result]
  /\ settleOrder' = [settleOrder EXCEPT ![d] = Append(@, "<upstream>")]
  /\ UNCHANGED <<declared, options, pc, config, restResult, checks, report>>
  /\ UNCHANGED fetchVars
  /\ UNCHANGED unitVars

\* The getUsage promise of usage k of dependency d settles.
SettleUsage(d, k) ==
  /\ pc = "running"
  /\ restResult[d][k].status = "pending"
  /\ \E read \in UsageReads :
       restResult' = [restResult EXCEPT ![d][k] = getUsage(read)]
  /\ settleOrder' = [settleOrder EXCEPT ![d] = Append(@, k)]
  /\ UNCHANGED <<declared, options, pc, config, upstreamResult, checks, report>>
  /\ UNCHANGED fetchVars
  /\ UNCHANGED unitVars

\* checkVersion of dependency d resumes after Promise.allSettled and returns.
CheckVersion(d) ==
  /\ pc = "running"
  /\ checks[d] = NoCheck
  /\ allSettled(upstreamResult[d], restResult[d])
  /\ checks' = [checks EXCEPT ![d] =
                  checkVersionResult(d, config.usages[d], upstreamResult[d], restResult[d])]
  /\ UNCHANGED <<declared, options, pc, config, upstreamResult, restResult, report,
                 settleOrder>>
  /\ UNCHANGED fetchVars
  /\ UNCHANGED unitVars

\* checkVersions resumes after Promise.all: every checkVersion returned;
\* apply --outdated and hand the results to the table.
CheckVersionsDone ==
  /\ pc = "running"
  /\ \A d \in DOMAIN checks : checks[d] # NoCheck
  /\ LET all == [i \in 1..Len(ObjectKeys(config.deps)) |-> checks[ObjectKeys(config.deps)[i]]]
     IN report' = IF options.outdated THEN filterOutdated(all) ELSE all
  /\ pc' = "done"
  /\ UNCHANGED <<declared, options, config, upstreamResult, restResult, checks,
                 settleOrder>>
  /\ UNCHANGED fetchVars
  /\ UNCHANGED unitVars

Next ==
  \/ CheckVersionsStart
  \/ \E d \in DOMAIN upstreamResult : SettleUpstream(d)
  \/ \E d \in DOMAIN restResult : \E k \in DOMAIN restResult[d] : SettleUsage(d, k)
  \/ \E d \in DOMAIN checks : CheckVersion(d)
  \/ CheckVersionsDone

\* The initial states of a run of checkVersions: no lone fetchVersion call.
InitCheck ==
  /\ Init
  /\ fspec = [type |-> "helm", prerelease |-> FALSE, versionSpec |-> Undefined]

\* One run of "versioncheck check".
Spec == InitCheck /\ [][Next]_vars

(***************************************************************************)
(* The version model on its own: makeVersion on two strings.               *)
(***************************************************************************)
\* The strings given to makeVersion: tag names, chart versions, element
\* texts, commit hashes and channel labels.
RawVersions ==
  {"2.2.0-rc1", "v2.2.0-rc1", "vv2.2.0-rc1", "2.0", "2.0.0", "v2.0.0", "10.0.0",
   "latest", HashA, HashD, Hash1, SubSeq(HashA, 1, CommitLength - 1),
   ChannelA, ChannelD, "nixpkgs-unstable"}

\* makeVersion(a) and makeVersion(b)
MakeVersions ==
  /\ vraw = <<>>
  /\ narrowed = <<>>
  /\ \E a, b \in RawVersions, prerelease \in {Undefined, "true", "false"} :
       /\ vraw' = <<a, b>>
       /\ vmade' = <<makeVersion(a, Undefined, prerelease),
                     makeVersion(b, Undefined, prerelease)>>
  /\ UNCHANGED narrowed
  /\ UNCHANGED fetchVars
  /\ UNCHANGED checkVars
  /\ UNCHANGED cacheVars
  /\ UNCHANGED pathVars

MaxNames == 2

\* The regexp of a fetch spec or of a usage parser: none, the empty
\* string, or a pattern.
Regexps == {Undefined, "", "v(.*)", "v.*", "2", "t(.*)"}

\* The outcome of a narrowing call: the texts kept, and the Versions made
\* of them or the error.
Narrowing(op, names, regexp, kept, error) ==
  LET Made(versions) ==
        [op |-> op, names |-> names, regexp |-> regexp, kept |-> kept,
         threw |-> error # "" \/ \E i \in 1..Len(versions) : versions[i] = ParseError,
         error |-> error,
         versions |-> IF \E i \in 1..Len(versions) : versions[i] = ParseError
                        THEN <<>> ELSE versions]
  IN Made([i \in 1..Len(kept) |-> makeVersion(kept[i], Undefined, Undefined)] \o <<>>)

\* fetchGithubTag after the response is decoded: flatMap over the tag
\* names, a name applyRegexp gives null for contributes nothing.
NarrowTags ==
  /\ vraw = <<>>
  /\ narrowed = <<>>
  /\ \E names \in SeqsUpTo(RawVersions, MaxNames), regexp \in Regexps :
       narrowed' =
         Narrowing("github_tag", names, regexp,
                   SelectSeq([i \in 1..Len(names) |-> applyRegexp(names[i], regexp)] \o <<>>,
                             LAMBDA version : version # "<null>"),
                   "")
  /\ UNCHANGED <<vraw, vmade>>
  /\ UNCHANGED fetchVars
  /\ UNCHANGED checkVars
  /\ UNCHANGED cacheVars
  /\ UNCHANGED pathVars

\* getUsage after the text is read (regexp parser) or the query is
\* evaluated (yaml parser): requireRegexp, then makeVersion.
ParseUsage ==
  /\ vraw = <<>>
  /\ narrowed = <<>>
  /\ \E rawText \in RawVersions, regexp \in Regexps :
       LET Parsed(version) ==
             IF version.threw
               THEN Narrowing("usage", <<rawText>>, regexp, <<>>, version.value)
               ELSE Narrowing("usage", <<rawText>>, regexp, <<version.value>>, "")
       IN narrowed' = Parsed(requireRegexp(rawText, regexp))
  /\ UNCHANGED <<vraw, vmade>>
  /\ UNCHANGED fetchVars
  /\ UNCHANGED checkVars
  /\ UNCHANGED cacheVars
  /\ UNCHANGED pathVars

VersionNext == MakeVersions \/ NarrowTags \/ ParseUsage

\* The initial state of a unit exercised on its own: no fetchVersion call
\* and no run of checkVersions.
InitUnit ==
  /\ Init
  /\ fspec = [type |-> "helm", prerelease |-> FALSE, versionSpec |-> Undefined]
  /\ declared = Config(Undefined, <<"production", "staging">>, <<"flake">>)
  /\ options = [outdated |-> FALSE, usage |-> Undefined]

\* makeVersion on every pair of strings.
SpecVersion == InitUnit /\ [][VersionNext]_vars

(***************************************************************************)
(* Source cache (cache.ts) and the network-backed fetches fetchUrl and     *)
(* fetchNixpkgs (fetchers.ts).  A task runs up to its next await in one     *)
(* step; the tasks of a run interleave at their awaits.                    *)
(***************************************************************************)
\* Most listing pages the channel listing has.
MaxPages == 2

\* Cache.getBody: the stored body, or null (Undefined).
getBody(db, url) == IF url \in DOMAIN db THEN db[url] ELSE Undefined

\* saveBody as INSERT OR IGNORE: a stored body is kept.
saveBodyIgnore(db, url, body) ==
  IF url \in DOMAIN db THEN db
  ELSE [k \in DOMAIN db \cup {url} |-> IF k = url THEN body ELSE db[k]]

\* Cache.saveBody: INSERT OR REPLACE INTO fetch VALUES (url, body)
saveBody(db, url, body) ==
  [k \in DOMAIN db \cup {url} |-> IF k = url THEN body ELSE db[k]]

RECURSIVE JoinCommas(_)
JoinCommas(strs) ==
  IF Len(strs) = 0 THEN ""
  ELSE IF Len(strs) = 1 THEN strs[1]
  ELSE strs[1] \o "," \o JoinCommas(Tail(strs))

\* JSON.stringify of a list of strings that need no escaping.
JsonStringify(strs) ==
  "[" \o JoinCommas([i \in 1..Len(strs) |-> "\"" \o strs[i] \o "\""]) \o "]"

\* JSON.parse of such a list.
JsonParse(text) ==
  LET Unquote(items) == [i \in 1..Len(items) |-> SubSeq(items[i], 2, Len(items[i]) - 1)]
  IN IF Len(text) <= 2 THEN <<>>
     ELSE Unquote(Split(SubSeq(text, 2, Len(text) - 1), ","))

\* The request URLs of two upstreams, and the key and the page URLs of the
\* channel listing.
UrlTags == "https://api.github.com/repos/org/app/tags"

UrlIndex == "https://charts.example.org/index.yaml"

Urls == {UrlTags, UrlIndex}

NixKey == "nix-channel:nixpkgs-unstable"

NixUrl(token) ==
  "https://nix-releases.s3.amazonaws.com/?list-type=2&prefix=nixpkgs/nixpkgs-&delimiter=/"
    \o (IF token = Undefined THEN "" ELSE "&continuation-token=" \o token)

\* The continuation token that leads to page k, and the label page k lists.
PageToken(k) == "page" \o NumberToString(k)

PageLabel(k) ==
  IF k = 1 THEN ChannelA
  ELSE IF k = 2 THEN ChannelD
  ELSE "nixpkgs-24.05pre." \o NumberToString(k) \o "abc"

\* What the servers answer: a status and a body text.
StatusOk == 200

Statuses == {StatusOk, 404}

ResponseBodies == {"", "v1", "v2"}

\* The fetch table left by earlier runs.
InitialCaches ==
  {<<>>,
   (UrlTags :> "old"),
   (UrlTags :> ""),
   (UrlTags :> "old") @@ (NixKey :> JsonStringify(<<ChannelA>>))}

TaskIds == {"first", "second", "nixpkgs"}

\* A fetch task before its first step.
NewTask(kind, url) ==
  [kind |-> kind, url |-> url, pc |-> "start", held |-> FALSE, heldBody |-> Undefined,
   status |-> 0, text |-> "", token |-> Undefined, body |-> Undefined, error |-> <<>>, page |-> 0,
   versions |-> <<>>]

\* response.status !== 200 taken as success for every status.
statusAny(status) == TRUE

\* response.status === 200
statusOk(status) == status = StatusOk

\* A failed request that starts the task over.
onFailureRetry(task, error) == [task EXCEPT !.pc = "start"]

\* throw new Error(...): the task fails with the error.
onFailure(task, error) == [task EXCEPT !.pc = "threw", !.error = error]

\* fetch(url) rejected: no response, so no status.
NetworkError == 0

notCacheVars == <<fetchVars, checkVars, versionVars, pathVars>>

\* getFetchContext and the creation of the fetch tasks of a run: two
\* fetchUrl calls, on the same URL or not, and one fetchNixpkgs call.
CacheStart ==
  /\ tasks = <<>>
  /\ \E db \in InitialCaches, u \in BOOLEAN, url \in Urls :
       /\ cacheDb' = db
       /\ cache0' = db
       /\ update' = u
       /\ tasks' = [t \in TaskIds |->
                      IF t = "nixpkgs" THEN NewTask("nixpkgs", NixKey)
                      ELSE IF t = "first" THEN NewTask("url", UrlTags)
                      ELSE NewTask("url", url)]
  /\ UNCHANGED <<requests, reads, writes>>
  /\ UNCHANGED notCacheVars

\* fetchUrl up to await fetch(...): consult the cache unless update is
\* set, return the cached body or issue the request.
FetchUrlStart(t) ==
  /\ tasks[t].kind = "url"
  /\ tasks[t].pc = "start"
  /\ LET url == tasks[t].url
         cached == IF update THEN Undefined ELSE getBody(cacheDb, url)
     IN /\ reads' = IF update THEN reads ELSE Append(reads, <<t, url>>)
        /\ IF Truthy(cached)
             THEN /\ tasks' = [tasks EXCEPT ![t] =
                                 [@ EXCEPT !.pc = "done", !.body = cached,
                                           !.held = TRUE, !.heldBody = cached]]
                  /\ requests' = requests
             ELSE /\ tasks' = [tasks EXCEPT ![t] =
                                 [@ EXCEPT !.pc = "fetching",
                                           !.held = url \in DOMAIN cacheDb,
                                           !.heldBody = getBody(cacheDb, url)]]
                  /\ requests' = Append(requests, <<t, url>>)
  /\ UNCHANGED <<cacheDb, update, cache0, writes>>
  /\ UNCHANGED notCacheVars

\* checkVersions starts every checkVersion inside one synchronous map, and
\* each runs without suspending up to its first await fetch: no response
\* is handled before every task has consulted the cache.
AllStarted == \A u \in DOMAIN tasks : tasks[u].pc # "start"

\* doc.querySelector("NextContinuationToken")?.textContent ?? null of the
\* page a listing request answers: none, or the token of the next page.
NextTokens(task) ==
  IF task.kind = "nixpkgs" /\ task.page < MaxPages
    THEN {Undefined, PageToken(task.page + 1)}
    ELSE {Undefined}

\* The do-while of fetchNixpkgs left after the first page.
hasNextPageNever(token) == FALSE

\* while (continuationToken !== null)
hasNextPage(token) == token # Undefined

\* await fetch(...) settles: the request failed, or a response with a
\* status and a body text arrived.
Response(t) ==
  /\ tasks[t].pc = "fetching"
  /\ AllStarted
  /\ \E outcome \in Statuses \cup {NetworkError}, text \in ResponseBodies,
        token \in NextTokens(tasks[t]) :
       /\ token # Undefined => outcome = StatusOk
       /\ tasks' = [tasks EXCEPT ![t] =
                      IF outcome = NetworkError
                        THEN onFailure(@, <<NetworkError, "">>)
                        ELSE [@ EXCEPT !.pc = "text", !.status = outcome,
                                       !.text = text, !.token = token]]
  /\ UNCHANGED <<cacheDb, update, cache0, requests, reads, writes>>
  /\ UNCHANGED notCacheVars

\* fetchUrl after await response.text(): throw on a non-200 status, else
\* save the body and return it.
FetchUrlText(t) ==
  /\ tasks[t].kind = "url"
  /\ tasks[t].pc = "text"
  /\ IF statusOk(tasks[t].status)
       THEN /\ cacheDb' = saveBody(cacheDb, tasks[t].url, tasks[t].text)
            /\ writes' = Append(writes, <<t, tasks[t].url, tasks[t].text>>)
            /\ tasks' = [tasks EXCEPT ![t] = [@ EXCEPT !.pc = "done", !.body = tasks[t].text]]
       ELSE /\ tasks' = [tasks EXCEPT ![t] = onFailure(@, <<tasks[t].status, tasks[t].text>>)]
            /\ UNCHANGED <<cacheDb, writes>>
  /\ UNCHANGED <<update, cache0, requests, reads>>
  /\ UNCHANGED notCacheVars

\* fetchNixpkgs up to the first await fetch(url): consult the cache unless
\* update is set, return the cached listing or request the first page.
NixStart(t) ==
  /\ tasks[t].kind = "nixpkgs"
  /\ tasks[t].pc = "start"
  /\ LET cached == IF update THEN Undefined ELSE getBody(cacheDb, NixKey)
     IN /\ reads' = IF update THEN reads ELSE Append(reads, <<t, NixKey>>)
        /\ IF Truthy(cached)
             THEN /\ tasks' = [tasks EXCEPT ![t] =
                                 [@ EXCEPT !.pc = "done", !.body = cached,
                                           !.versions = JsonParse(cached),
                                           !.held = TRUE, !.heldBody = cached]]
                  /\ requests' = requests
             ELSE /\ tasks' = [tasks EXCEPT ![t] =
                                 [@ EXCEPT !.pc = "fetching", !.page = 1,
                                           !.versions = <<>>,
                                           !.held = NixKey \in DOMAIN cacheDb,
                                           !.heldBody = getBody(cacheDb, NixKey)]]
                  /\ requests' = Append(requests, <<t, NixUrl(Undefined)>>)
  /\ UNCHANGED <<cacheDb, update, cache0, writes>>
  /\ UNCHANGED notCacheVars

\* fetchNixpkgs after await response.text() of a page: throw on a non-200
\* status; else collect the page's labels and request the next page when
\* the page names a continuation token, or save the listing and return.
NixText(t) ==
  /\ tasks[t].kind = "nixpkgs"
  /\ tasks[t].pc = "text"
  /\ IF ~statusOk(tasks[t].status)
       THEN /\ tasks' = [tasks EXCEPT ![t] = onFailure(@, <<tasks[t].status, tasks[t].text>>)]
            /\ UNCHANGED <<cacheDb, requests, writes>>
       ELSE LET versions == Append(tasks[t].versions, PageLabel(tasks[t].page))
            IN IF hasNextPage(tasks[t].token)
                 THEN /\ tasks' = [tasks EXCEPT ![t] =
                                     [@ EXCEPT !.pc = "fetching",
                                               !.page = @ + 1,
                                               !.versions = versions]]
                      /\ requests' = Append(requests, <<t, NixUrl(tasks[t].token)>>)
                      /\ UNCHANGED <<cacheDb, writes>>
                 ELSE /\ cacheDb' = saveBody(cacheDb, NixKey, JsonStringify(versions))
                      /\ writes' = Append(writes, <<t, NixKey, JsonStringify(versions)>>)
                      /\ tasks' = [tasks EXCEPT ![t] =
                                     [@ EXCEPT !.pc = "done",
                                               !.body = JsonStringify(versions),
                                               !.versions = versions]]
                      /\ requests' = requests
  /\ UNCHANGED <<update, cache0, reads>>
  /\ UNCHANGED notCacheVars

CacheNext ==
  \/ CacheStart
  \/ \E t \in DOMAIN tasks : FetchUrlStart(t)
  \/ \E t \in DOMAIN tasks : Response(t)
  \/ \E t \in DOMAIN tasks : FetchUrlText(t)
  \/ \E t \in DOMAIN tasks : NixStart(t)
  \/ \E t \in DOMAIN tasks : NixText(t)

\* The fetch tasks of one run over the cache, in every interleaving.
SpecCache == InitUnit /\ [][CacheNext]_vars

(***************************************************************************)
(* Reading a usage's file (usage.ts): getFile and normalizePaths, with the  *)
(* alias loop of normalizePaths taken one substitution at a time.          *)
(***************************************************************************)

\* String.prototype.includes
Includes(s, key) ==
  \E i \in 1..(Len(s) - Len(key) + 1) : SubSeq(s, i, i + Len(key) - 1) = key

RECURSIVE ReplaceFrom(_, _, _, _)
\* The rest of s from position i on, with the occurrences of key, found
\* left to right without overlap, replaced by value.
ReplaceFrom(s, i, key, value) ==
  IF i + Len(key) - 1 > Len(s) THEN SubSeq(s, i, Len(s))
  ELSE IF SubSeq(s, i, i + Len(key) - 1) = key
    THEN value \o ReplaceFrom(s, i + Len(key), key, value)
    ELSE SubSeq(s, i, i) \o ReplaceFrom(s, i + 1, key, value)

\* replaceAll dropping the replacement: every occurrence of key is removed.
ReplaceAllErase(s, key, value) == ReplaceFrom(s, 1, key, "")

\* String.prototype.replaceAll with a non-empty string pattern.
ReplaceAll(s, key, value) == ReplaceFrom(s, 1, key, value)

RECURSIVE CollapseSlashes(_)
CollapseSlashes(s) ==
  IF Len(s) < 2 THEN s
  ELSE IF SubSeq(s, 1, 2) = "//"
    THEN CollapseSlashes(SubSeq(s, 2, Len(s)))
    ELSE SubSeq(s, 1, 1) \o CollapseSlashes(SubSeq(s, 2, Len(s)))

\* path.join of two non-empty paths without "." or ".." segments: joined
\* by a separator, repeated separators collapsed.
JoinPath(a, b) == CollapseSlashes(a \o "/" \o b)

\* The alias table of the README's path mapping, in Object.entries order.
ReadmeAlias == << <<"~org", "/data/repos/org">>,
                 <<"~sister-org", "/data/repos/sister-org">> >>

ReadmeGithub ==
  ("org/repo" :> "~org/repo") @@
  ("org/secret-project" :> "~org/secret-repos/project") @@
  ("sister-org/config" :> "~sister-org/config")

ReadmePaths == [alias |-> ReadmeAlias, github |-> ReadmeGithub]

\* An alias defined through another alias.
ChainedPaths ==
  [alias |-> << <<"~org", "/data/org">>, <<"~base", "~org/shared">> >>,
   github |-> ("org/repo" :> "~base")]

\* Two aliases defined through each other.
CyclicPaths ==
  [alias |-> << <<"~a", "~b">>, <<"~b", "~a">> >>,
   github |-> ("org/repo" :> "~a/repo")]

\* A mapping file with empty tables.
EmptyPaths == [alias |-> <<>>, github |-> <<>>]

PathTables == {ReadmePaths, ChainedPaths, CyclicPaths, EmptyPaths}

\* parseTokens results: only a default token, an owner's token and a
\* default, an empty owner's token, only another owner's token.
TokenTables ==
  { ("default" :> "T0"),
    ("org" :> "T1") @@ ("default" :> "T0"),
    ("org" :> "") @@ ("default" :> "T0"),
    ("sister-org" :> "T2") }

\* An optional field of the context: absent, or present with a value.
Absent == <<>>

Present(value) == <<value>>

UsageContexts ==
  [paths : {Present(p) : p \in PathTables} \cup {Absent},
   tokens : {Present(t) : t \in TokenTables} \cup {Absent}]

LocalSource(p) == [type |-> "local", owner |-> "", repo |-> "", path |-> p, rev |-> ""]

GithubSource(owner, repo, p) ==
  [type |-> "github", owner |-> owner, repo |-> repo, path |-> p, rev |-> "main"]

FileSources ==
  { LocalSource("/srv/app/values.yaml"),
    LocalSource("/srv/~org/values.yaml"),
    LocalSource("/srv/~a/values.yaml"),
    GithubSource("org", "repo", "file.yaml"),
    GithubSource("org", "secret-project", "file.yaml"),
    GithubSource("sister-org", "config", "file.yaml") }

\* context.tokens[source.owner] ?? context.tokens.default
TokenFor(tokens, owner) ==
  IF owner \in DOMAIN tokens THEN tokens[owner]
  ELSE IF "default" \in DOMAIN tokens THEN tokens["default"]
  ELSE Undefined

\* The branch of getFile with the path mapping tested before the tokens.
FileModePathsFirst(src, ctx) ==
  IF src.type = "local" THEN "local"
  ELSE IF ctx.paths # Absent THEN "mapped"
  ELSE IF ctx.tokens # Absent THEN "http"
  ELSE "neither"

\* The branch of getFile taken for a source and a context.
FileMode(src, ctx) ==
  IF src.type = "local" THEN "local"
  ELSE IF ctx.tokens # Absent THEN "http"
  ELSE IF ctx.paths # Absent THEN "mapped"
  ELSE "neither"

\* The key built from the repository name alone.
PathKeyRepo(src) == src.repo

\* `${source.owner}/${source.repo}`
PathKey(src) == src.owner \o "/" \o src.repo

ContentsUrl(src) ==
  "https://api.github.com/repos/" \o src.owner \o "/" \o src.repo \o
  "/contents/" \o src.path \o "?rev=" \o src.rev

FileResult(mode, p, url, token, error) ==
  [mode |-> mode, path |-> p, url |-> url, token |-> token, error |-> error]

\* getFile up to its first await, and normalizePaths up to its alias loop.
GetFileStart ==
  /\ fpc = "idle"
  /\ \E src \in FileSources, ctx \in UsageContexts :
       /\ source' = src
       /\ context' = ctx
       /\ LET Normalize(p) ==
                /\ newPath' = p
                /\ changed' = FALSE
                /\ aliasIdx' = 1
                /\ fpc' = "normalize"
                /\ file' = file
              Throw(error) ==
                /\ fpc' = "threw"
                /\ file' = FileResult("none", "", "", Undefined, error)
                /\ UNCHANGED <<newPath, changed, aliasIdx>>
              Branch(mode) ==
                CASE mode = "local" ->
                       IF ctx.paths # Absent
                         THEN Normalize(src.path)
                         ELSE /\ newPath' = src.path
                              /\ fpc' = "read"
                              /\ UNCHANGED <<changed, aliasIdx, file>>
                  [] mode = "http" ->
                       /\ fpc' = "http"
                       /\ file' = FileResult("http", "", ContentsUrl(src),
                                             TokenFor(ctx.tokens[1], src.owner), "")
                       /\ UNCHANGED <<newPath, changed, aliasIdx>>
                  [] mode = "mapped" ->
                       IF PathKey(src) \notin DOMAIN ctx.paths[1].github
                         THEN Throw("Could not resolve github path " \o PathKey(src))
                         ELSE Normalize(JoinPath(ctx.paths[1].github[PathKey(src)], src.path))
                  [] OTHER ->
                       Throw("GitHub sources require --path or --token specified")
          IN Branch(FileMode(src, ctx))
  /\ UNCHANGED <<fetchVars, checkVars, versionVars, cacheVars>>

\* One iteration of the for loop over Object.entries(paths.alias), or the
\* end of a pass of the do-while: another pass if the path changed, else
\* normalizePaths returns.
NormalizeStep ==
  /\ fpc = "normalize"
  /\ IF aliasIdx <= Len(context.paths[1].alias)
       THEN LET Substitute(replacedPath) ==
                  /\ changed' = (changed \/ replacedPath # newPath)
                  /\ newPath' = replacedPath
                  /\ aliasIdx' = aliasIdx + 1
                  /\ fpc' = fpc
            IN Substitute(ReplaceAll(newPath, context.paths[1].alias[aliasIdx][1],
                                     context.paths[1].alias[aliasIdx][2]))
       ELSE IF changed
         THEN /\ changed' = FALSE
              /\ aliasIdx' = 1
              /\ UNCHANGED <<newPath, fpc>>
         ELSE /\ fpc' = "read"
              /\ UNCHANGED <<newPath, changed, aliasIdx>>
  /\ UNCHANGED <<source, context, file>>
  /\ UNCHANGED <<fetchVars, checkVars, versionVars, cacheVars>>

\* await Deno.readTextFile(sourcePath) settles.
ReadFile ==
  /\ fpc = "read"
  /\ \E ok \in BOOLEAN :
       IF ok
         THEN /\ fpc' = "done"
              /\ file' = FileResult("disk", newPath, "", Undefined, "")
         ELSE /\ fpc' = "threw"
              /\ file' = FileResult("disk", newPath, "", Undefined,
                                    "Failed to read file: " \o newPath)
  /\ UNCHANGED <<source, context, newPath, changed, aliasIdx>>
  /\ UNCHANGED <<fetchVars, checkVars, versionVars, cacheVars>>

\* await fetch(url, ...) of the contents API settles with a response.
HttpResponse ==
  /\ fpc = "http"
  /\ \E status \in Statuses :
       /\ fpc' = IF statusOk(status) THEN "done" ELSE "threw"
       /\ file' = [file EXCEPT !.error = IF statusOk(status) THEN "" ELSE "Got status"]
  /\ UNCHANGED <<source, context, newPath, changed, aliasIdx>>
  /\ UNCHANGED <<fetchVars, checkVars, versionVars, cacheVars>>

PathsNext ==
  \/ GetFileStart
  \/ NormalizeStep
  \/ ReadFile
  \/ HttpResponse

\* One getFile call; the synchronous alias loop keeps running while it can.
SpecPaths == InitUnit /\ [][PathsNext]_vars /\ WF_vars(NormalizeStep)

\* fetchGithubCommit up to its first await, in the first run ("first") or
\* in a later run over the same cache file ("second"): consult the cache
\* unless update is set and return the cached commit; else start git
\* ls-remote when the repository is private and no tokens are configured,
\* and call fetchUrl otherwise.
fetchGithubCommit(t) ==
  /\ vraw = <<>>
  /\ narrowed = <<>>
  /\ fpc = "idle"
  /\ \/ t = "first" /\ tasks = <<>>
     \/ /\ t = "second"
        /\ DOMAIN tasks = {"first"}
        /\ tasks["first"].pc \in {"done", "threw"}
  /\ \E db \in {<<>>, ("https://api.github.com/repos/org/app/commits/main"
                          :> ("{\"sha\":\"" \o HashD \o "\"}"))},
        u \in BOOLEAN, private \in BOOLEAN, tokens \in {Absent, Present("default")} :
       LET url == "https://api.github.com/repos/org/app/commits/main"
           table == IF t = "first" THEN db ELSE cacheDb
           cached == IF u THEN Undefined ELSE getBody(table, url)
           task == NewTask("commit", url)
                     @@ [private |-> IF t = "first" THEN private ELSE tasks["first"].private,
                         tokens |-> tokens]
           \* JSON.parse(body).sha, then makeVersion
           Parsed(version) ==
             IF version = ParseError
               THEN [task EXCEPT !.pc = "threw", !.held = TRUE, !.heldBody = cached,
                                 !.body = cached]
               ELSE [task EXCEPT !.pc = "done", !.held = TRUE, !.heldBody = cached,
                                 !.body = cached, !.versions = <<version>>]
           started ==
             IF Truthy(cached)
               THEN Parsed(makeVersion(SubSeq(cached, 9, Len(cached) - 2),
                                       Undefined, Undefined))
             ELSE IF task.private /\ tokens = Absent
               THEN [task EXCEPT !.pc = "git"]
             ELSE [task EXCEPT !.kind = "url"]
       IN /\ cacheDb' = table
          /\ cache0' = table
          /\ update' = u
          /\ reads' = IF u THEN reads ELSE Append(reads, <<t, url>>)
          /\ tasks' = (t :> started) @@ tasks
  /\ UNCHANGED <<requests, writes>>
  /\ UNCHANGED notCacheVars

\* git ls-remote ends: a non-zero exit code fails the fetch; else the
\* first 40 characters of its output are saved as the body under the URL
\* and made a Version.
GitExit(t) ==
  /\ tasks[t].pc = "git"
  /\ \E code \in {0, 128}, output \in {HashA \o "\tHEAD\n", ""} :
       LET sha == SubSeq(output, 1, IF Len(output) < 40 THEN Len(output) ELSE 40)
           body == "{\"sha\":\"" \o sha \o "\"}"
           Parsed(version) ==
             IF version = ParseError
               THEN [tasks[t] EXCEPT !.pc = "threw", !.body = body,
                                     !.error = <<"makeVersion", sha>>]
               ELSE [tasks[t] EXCEPT !.pc = "done", !.body = body,
                                     !.versions = <<version>>]
       IN IF code # 0
            THEN /\ tasks' = [tasks EXCEPT ![t] =
                                [@ EXCEPT !.pc = "threw", !.error = <<"git", code>>]]
                 /\ UNCHANGED <<cacheDb, writes>>
            ELSE /\ cacheDb' = saveBody(cacheDb, tasks[t].url, body)
                 /\ writes' = Append(writes, <<t, tasks[t].url, body>>)
                 /\ tasks' = [tasks EXCEPT ![t] =
                                Parsed(makeVersion(SubSeq(body, 9, Len(body) - 2),
                                                   Undefined, Undefined))]
  /\ UNCHANGED <<update, cache0, requests, reads>>
  /\ UNCHANGED notCacheVars

\* A github_commit upstream fetched in two successive runs.
SpecCommit ==
  InitUnit /\ [][\/ \E t \in {"first", "second"} : fetchGithubCommit(t)
                 \/ \E t \in DOMAIN tasks : GitExit(t)
                 \/ \E t \in DOMAIN tasks : FetchUrlStart(t)
                 \/ \E t \in DOMAIN tasks : Response(t)
                 \/ \E t \in DOMAIN tasks : FetchUrlText(t)]_vars

(***************************************************************************)
(* Properties of fetchVersion, checked under SpecFetch.                    *)
(***************************************************************************)
\* The candidates the adapter built from the response.
Cands == MapEntries(fresponse.entries, fspec.type)

\* The candidates left after prerelease filtering.
Filtered == SelectSeq(Cands, LAMBDA v : fspec.prerelease \/ ~v.prerelease)

\* The adapter returned a candidate list (it did not throw).
AdapterYielded ==
  /\ fresult # Pending
  /\ fresponse.ok
  /\ ~(fspec.type = "helm" /\ Len(Cands) = 0)
  /\ \A i \in 1..Len(Cands) : Cands[i] # ParseError

\* C7: with a versionSpec, the returned version is a filtered candidate
\* that satisfies the spec and is greatest under compare among the
\* satisfying ones, and latest is a filtered candidate greatest under
\* compare among all filtered ones.
C7_NewestSatisfying ==
  (fresult.status = "fulfilled" /\ Truthy(fspec.versionSpec)) =>
    LET r == fresult.value
    IN /\ \E i \in 1..Len(Filtered) : Filtered[i] = r.version
       /\ satisfies(r.version, fspec.versionSpec)
       /\ \A i \in 1..Len(Filtered) :
            satisfies(Filtered[i], fspec.versionSpec)
              => compare(r.version, Filtered[i]) >= 0
       /\ \E i \in 1..Len(Filtered) : Filtered[i] = r.latest
       /\ \A i \in 1..Len(Filtered) : compare(r.latest, Filtered[i]) >= 0

\* C8: with prerelease = false, the returned version, latest and every
\* element of versions have prerelease = false.
C8_NoPrerelease ==
  (fresult.status = "fulfilled" /\ ~fspec.prerelease) =>
    /\ ~fresult.value.version.prerelease
    /\ ~fresult.value.latest.prerelease
    /\ \A i \in 1..Len(fresult.value.versions) :
         ~fresult.value.versions[i].prerelease

C8_Witness ==
  /\ fresult.status = "fulfilled"
  /\ ~fspec.prerelease
  /\ \E i, j \in 1..Len(Cands) : Cands[i].prerelease /\ ~Cands[j].prerelease

C10_VersionsAbsent ==
  (fspec.type = "github_commit" /\ fresult.status = "fulfilled") =>
    /\ fresult.value.version = Cands[1]
    /\ ~fresult.value.hasVersions

\* C10 amended: for github_commit a returned result has the one Version as
\* version and as latest, and versions present as the one-element list
\* holding it; without a versionSpec the fetch of a commit returns a result.
C10_OneElementList ==
  (fspec.type = "github_commit" /\ AdapterYielded) =>
    /\ fresult.status = "fulfilled" =>
         /\ fresult.value.version = CommitVersion(fresponse.entries[1].main)
         /\ fresult.value.latest = fresult.value.version
         /\ fresult.value.hasVersions
         /\ fresult.value.versions = <<fresult.value.version>>
    /\ ~Truthy(fspec.versionSpec) => fresult.status = "fulfilled"

C10_Witness ==
  /\ fspec.type = "github_commit"
  /\ fresult.status = "fulfilled"
  /\ fresult.value.version.kind = "Commit"

\* C11: on the candidates of one fetch, compare is antisymmetric
\* (sign(a.compare(b)) = -sign(b.compare(a))) and transitive, also when the
\* list mixes Semantic, Commit and Nixpkgs versions.
C11_CompareOrder ==
  AdapterYielded =>
    /\ \A i, j \in 1..Len(Cands) :
         Sign(compare(Cands[i], Cands[j])) = -Sign(compare(Cands[j], Cands[i]))
    /\ \A i, j, k \in 1..Len(Cands) :
         (compare(Cands[i], Cands[j]) <= 0 /\ compare(Cands[j], Cands[k]) <= 0)
           => compare(Cands[i], Cands[k]) <= 0

(***************************************************************************)
(* Properties of checkVersion and checkVersions, checked under Spec.       *)
(***************************************************************************)
Returned(d) == checks[d] # NoCheck

FailedUsages(d) == {k \in DOMAIN restResult[d] : restResult[d][k].status = "rejected"}

ResolvedUsages(d) == {k \in DOMAIN restResult[d] : restResult[d][k].status = "fulfilled"}

\* C1: at the end of a run every dependency has its result; in it every
\* failed usage is named in errored and, when the upstream resolved, every
\* resolved usage is in outdated exactly when the upstream version is not
\* equivalent to it; without --outdated the report holds every result.
C1_Isolation ==
  pc = "done" =>
    /\ \A d \in SeqToSet(config.deps) :
         /\ checks[d].name = d
         /\ \A k \in FailedUsages(d) : k \in SeqToSet(checks[d].errored)
         /\ upstreamResult[d].status = "fulfilled" =>
              \A k \in ResolvedUsages(d) :
                k \in DOMAIN checks[d].outdated
                  <=> ~equivalent(upstreamResult[d].value.version, restResult[d][k].value)
    /\ ~options.outdated =>
         /\ Len(report) = Len(config.deps)
         /\ \A d \in SeqToSet(config.deps) : \E i \in 1..Len(report) : report[i] = checks[d]

\* C2: a dependency's result exists only once its upstream task and every
\* usage task have settled, and it is the result determined by the tasks'
\* outcomes, whatever the order in which they settled.
C2_FullJoin ==
  \A d \in DOMAIN checks :
    Returned(d) =>
      /\ upstreamResult[d].status \in {"fulfilled", "rejected"}
      /\ \A k \in DOMAIN restResult[d] : restResult[d][k].status \in {"fulfilled", "rejected"}
      /\ Len(settleOrder[d]) = 1 + Len(config.usages[d])
      /\ checks[d].upstreamNull = (upstreamResult[d].status = "rejected")
      /\ SeqToSet(checks[d].errored) = FailedUsages(d)
      /\ DOMAIN checks[d].outdated \subseteq ResolvedUsages(d)
      /\ checks[d] = checkVersionResult(d, config.usages[d], upstreamResult[d],
                                        restResult[d])

\* A usage failed first, the other tasks settled after it, the upstream
\* resolved, and the result was returned.
C2_Witness ==
  \E d \in DOMAIN checks :
    /\ Returned(d)
    /\ Len(settleOrder[d]) = 3
    /\ settleOrder[d][1] \in FailedUsages(d)
    /\ settleOrder[d][3] = "<upstream>"
    /\ upstreamResult[d].status = "fulfilled"
    /\ ResolvedUsages(d) # {}

\* C3: a resolved usage is in outdated exactly when the upstream's current
\* version is not equivalent to it (upstream.version.equivalent(usage)).
C3_OutdatedIffNotEquivalent ==
  \A d \in DOMAIN checks :
    (Returned(d) /\ upstreamResult[d].status = "fulfilled") =>
      \A k \in ResolvedUsages(d) :
        k \in DOMAIN checks[d].outdated
          <=> ~equivalent(upstreamResult[d].value.version, restResult[d][k].value)

\* C4: when the upstream resolution failed, upstream is null and outdated
\* is empty whatever the usages did, and errored names exactly the usages
\* that failed.
C4_UpstreamFailed ==
  \A d \in DOMAIN checks :
    (Returned(d) /\ upstreamResult[d].status = "rejected") =>
      /\ checks[d].upstreamNull
      /\ DOMAIN checks[d].outdated = {}
      /\ SeqToSet(checks[d].errored) = FailedUsages(d)
      /\ Len(checks[d].errored) = Cardinality(FailedUsages(d))

C4_Witness ==
  \E d \in DOMAIN checks :
    /\ Returned(d)
    /\ upstreamResult[d].status = "rejected"
    /\ FailedUsages(d) # {}
    /\ \E k \in ResolvedUsages(d) : restResult[d][k].value.main = "4.1.0"

\* C5 as stated: errored is the failed usages in the order of declaration,
\* outdated names only resolved usages, and no name is in both.
C5_DeclarationOrder ==
  \A d \in DOMAIN checks :
    Returned(d) =>
      /\ checks[d].errored = SelectSeq(config.usages[d], LAMBDA k : k \in FailedUsages(d))
      /\ DOMAIN checks[d].outdated \subseteq ResolvedUsages(d)
      /\ DOMAIN checks[d].outdated \cap SeqToSet(checks[d].errored) = {}

\* Position of a name in a sequence without repetitions.
PositionIn(seq, k) == CHOOSE i \in 1..Len(seq) : seq[i] = k

\* Object key order: integer-like names ascending, then the others as declared.
KeyBefore(a, b, declaredNames) ==
  IF IsIndexKey(a) /\ IsIndexKey(b) THEN ToNumber(a) < ToNumber(b)
  ELSE IF IsIndexKey(a) THEN TRUE
  ELSE IF IsIndexKey(b) THEN FALSE
  ELSE PositionIn(declaredNames, a) < PositionIn(declaredNames, b)

\* C5 amended: errored holds exactly the failed usages, each once, in the
\* key order of the usages object (integer-like names first in ascending
\* numeric order, then the other names in the order of declaration);
\* outdated names only resolved usages, and no name is in both.
C5_KeyOrder ==
  \A d \in DOMAIN checks :
    Returned(d) =>
      /\ SeqToSet(checks[d].errored) = FailedUsages(d)
      /\ \A i, j \in 1..Len(checks[d].errored) :
           i < j => KeyBefore(checks[d].errored[i], checks[d].errored[j], config.usages[d])
      /\ DOMAIN checks[d].outdated \subseteq ResolvedUsages(d)
      /\ DOMAIN checks[d].outdated \cap SeqToSet(checks[d].errored) = {}

\* Usages declared as "10" then "9" both failed: errored lists "9" first.
C5_Witness ==
  \E d \in DOMAIN checks :
    /\ Returned(d)
    /\ config.usages[d] = <<"10", "9">>
    /\ checks[d].errored = <<"9", "10">>
    /\ upstreamResult[d].status = "fulfilled"

\* C6: the outdated entry of a usage is the upstream candidate with the
\* usage's main string when the upstream result has a candidate list with
\* such a candidate, and the usage's own Version otherwise.
C6_OutdatedEntry ==
  \A d \in DOMAIN checks :
    Returned(d) =>
      \A k \in DOMAIN checks[d].outdated :
        LET version == restResult[d][k].value
            upstream == upstreamResult[d].value
            matching == {i \in 1..Len(upstream.versions) :
                           upstream.versions[i].main = version.main}
        IN IF upstream.hasVersions /\ matching # {}
             THEN \E i \in matching : checks[d].outdated[k] = upstream.versions[i]
             ELSE checks[d].outdated[k] = version

\* The entry of an outdated usage carries the app label of the matching
\* upstream candidate, which the usage's own Version lacks.
C6_Witness ==
  \E d \in DOMAIN checks :
    /\ Returned(d)
    /\ \E k \in DOMAIN checks[d].outdated :
         /\ checks[d].outdated[k].app = "1.8"
         /\ restResult[d][k].value.app = Undefined
    /\ \E k \in DOMAIN checks[d].outdated :
         checks[d].outdated[k] = restResult[d][k].value

\* C23: a returned versions list is a permutation of the filtered
\* candidates in which every element compares >= 0 with the next one;
\* latest is its first element; version is one of its elements and
\* latest compares >= 0 with it; without a versionSpec version is latest.
C23_SortedResult ==
  (fresult.status = "fulfilled" /\ fresult.value.hasVersions) =>
    /\ Len(fresult.value.versions) = Len(Filtered)
    /\ \E p \in IndexPermutations(Len(Filtered)) :
         \A i \in 1..Len(Filtered) : fresult.value.versions[i] = Filtered[p[i]]
    /\ \A i \in 1..(Len(fresult.value.versions) - 1) :
         compare(fresult.value.versions[i], fresult.value.versions[i + 1]) >= 0
    /\ fresult.value.latest = fresult.value.versions[1]
    /\ \E i \in 1..Len(fresult.value.versions) :
         fresult.value.versions[i] = fresult.value.version
    /\ compare(fresult.value.latest, fresult.value.version) >= 0
    /\ fspec.versionSpec = Undefined => fresult.value.version = fresult.value.latest

(***************************************************************************)
(* Properties of the version model, checked under SpecVersion.             *)
(***************************************************************************)
\* Both strings were made into Versions of the given classes.
Made(kind1, kind2) ==
  /\ vmade # <<>>
  /\ vmade[1].kind = kind1
  /\ vmade[2].kind = kind2

\* C12: two Semantic versions with equal main compare as 0; two Semantic
\* versions equal in semantic ordering with different main are ordered by
\* the lexicographic comparison of main, never 0.
C12_EqualMainCompareZero ==
  Made("Semantic", "Semantic") =>
    /\ vmade[1].main = vmade[2].main => compare(vmade[1], vmade[2]) = 0
    /\ (/\ semverCompare(vmade[1].semantic, vmade[2].semantic) = 0
        /\ vmade[1].main # vmade[2].main)
         => /\ compare(vmade[1], vmade[2]) = localeCompare(vmade[1].main, vmade[2].main)
            /\ compare(vmade[1], vmade[2]) # 0

\* C13: a Nixpkgs version n is equivalent to a Commit version c exactly
\* when c's hash starts with n's short hash, and c is never equivalent to n.
C13_DirectionalEquivalence ==
  Made("Nixpkgs", "Commit") =>
    /\ Len(vmade[2].main) = CommitLength
    /\ equivalent(vmade[1], vmade[2]) <=> StartsWith(vmade[2].main, vmade[1].commit)
    /\ ~equivalent(vmade[2], vmade[1])

\* A string of exactly forty characters, each a digit or a letter a-f.
LowercaseHex40(raw) ==
  /\ Len(raw) = 40
  /\ \A i \in 1..Len(raw) : \E j \in 1..16 : Char(raw, i) = Char("0123456789abcdef", j)

\* C28: makeVersion gives every string one variant: a channel label
\* becomes a Nixpkgs version carrying the hash after its last dot; any
\* other string of forty lowercase hex characters becomes a Commit version;
\* any other string becomes a Semantic version when semver can parse or
\* coerce it, and a parse error when it can do neither.  Commit and
\* Nixpkgs versions are never prereleases, whatever flag was passed.
C28_Classification ==
  vmade # <<>> =>
    \A i \in 1..2 :
      /\ vmade[i].kind \in {"Nixpkgs", "Commit", "Semantic", "ParseError"}
      /\ vmade[i].kind = "Nixpkgs" <=> MatchesNixpkgs(vraw[i])
      /\ vmade[i].kind = "Nixpkgs" =>
            /\ vmade[i].main = vraw[i]
            /\ Len(vmade[i].commit) > 0
            /\ vraw[i] = SubSeq(vraw[i], 1, Len(vraw[i]) - Len(vmade[i].commit) - 1)
                           \o "." \o vmade[i].commit
            /\ IndexOf(vmade[i].commit, ".") = 0
      /\ vmade[i].kind = "Commit" <=> (~MatchesNixpkgs(vraw[i]) /\ LowercaseHex40(vraw[i]))
      /\ vmade[i].kind = "Commit" => vmade[i].main = vraw[i]
      /\ vmade[i].kind = "ParseError" <=>
            /\ ~MatchesNixpkgs(vraw[i])
            /\ ~LowercaseHex40(vraw[i])
            /\ semverParse(vraw[i]) = SemNull
            /\ semverCoerce(vraw[i]) = SemNull
      /\ vmade[i].kind = "Semantic" => vmade[i].semantic # SemNull
      /\ vmade[i].kind \in {"Commit", "Nixpkgs"} => ~vmade[i].prerelease

\* A hash that semver could coerce, a channel label and a string that is
\* no version, each made with the prerelease flag set.
C28_Witness ==
  /\ vmade # <<>>
  /\ \/ /\ vraw = <<Hash1, "2.0.0">>
        /\ vmade[1].kind = "Commit"
     \/ /\ vraw = <<ChannelD, "2.0.0">>
        /\ vmade[1].kind = "Nixpkgs"
        /\ vmade[1].commit = "d4e5f6"
  /\ vmade[2].kind = "Semantic"
  /\ vmade[2].prerelease
  /\ ~vmade[1].prerelease
  /\ semverCoerce(vraw[1]) # SemNull

\* The patterns of Regexps taken apart by hand: the literal each one
\* starts with, whether a capture group follows, whether it runs on to the
\* end of the text.
LiteralOf(regexp) ==
  CASE regexp = "v(.*)" -> "v"
    [] regexp = "v.*" -> "v"
    [] regexp = "t(.*)" -> "t"
    [] OTHER -> regexp

HasGroup(regexp) == regexp \in {"v(.*)", "t(.*)"}

RunsOn(regexp) == regexp \in {"v(.*)", "v.*", "t(.*)"}

\* What narrowing raw by regexp should give: <<>> on no match, else the
\* capture group when there is one and the whole match otherwise; raw
\* itself when no pattern is given.  emptyIsNone says whether the empty
\* string counts as no pattern.
ExpectedNarrowing(raw, regexp, emptyIsNone) ==
  IF regexp = Undefined \/ (emptyIsNone /\ regexp = "") THEN <<raw>>
  ELSE LET lit == LiteralOf(regexp)
           Skips == {n \in 0..(Len(raw) - Len(lit)) : SubSeq(raw, n + 1, n + Len(lit)) = lit}
           At(n) == IF HasGroup(regexp) THEN SubSeq(raw, n + Len(lit) + 1, Len(raw))
                    ELSE IF RunsOn(regexp) THEN SubSeq(raw, n + 1, Len(raw))
                    ELSE lit
       IN IF Skips = {} THEN <<>>
          ELSE <<At(CHOOSE n \in Skips : \A m \in Skips : n <= m)>>

RECURSIVE FlattenSeqs(_)
FlattenSeqs(seqs) ==
  IF seqs = <<>> THEN <<>> ELSE Head(seqs) \o FlattenSeqs(Tail(seqs))

\* The narrowing rule on the recorded call: an adapter keeps, in order,
\* the narrowed texts of the names that match and fails only when a kept
\* text is no version; a usage parser fails when the text does not match.
NarrowingRule(emptyIsNone) ==
  narrowed # <<>> =>
    LET expected == [i \in 1..Len(narrowed.names) |->
                       ExpectedNarrowing(narrowed.names[i], narrowed.regexp, emptyIsNone)]
        made == [i \in 1..Len(narrowed.kept) |->
                   makeVersion(narrowed.kept[i], Undefined, Undefined)]
        parses == \A i \in 1..Len(made) : made[i] # ParseError
    IN /\ narrowed.op = "github_tag" =>
            /\ narrowed.kept = FlattenSeqs(expected)
            /\ narrowed.error = ""
            /\ narrowed.threw <=> ~parses
            /\ ~narrowed.threw => narrowed.versions = made
       /\ narrowed.op = "usage" =>
            /\ expected[1] = <<>> =>
                  /\ narrowed.threw
                  /\ narrowed.error =
                        "No match for " \o narrowed.regexp \o " in " \o narrowed.names[1]
                  /\ narrowed.versions = <<>>
            /\ expected[1] # <<>> =>
                  /\ narrowed.kept = expected[1]
                  /\ narrowed.error = ""
                  /\ narrowed.threw <=> ~parses
                  /\ ~narrowed.threw => narrowed.versions = made

\* C27: narrowing gives the first capture group when the pattern has
\* one, the whole match otherwise, and the text unchanged when no pattern is
\* given; a tag name that does not match is dropped by the adapter without
\* an error, a usage text that does not match fails the usage.
C27_Narrowing == NarrowingRule(FALSE)

\* C27, amended: the empty string as pattern counts as no pattern, the
\* text is returned unchanged.
C27_NarrowingAmended == NarrowingRule(TRUE)

\* Two tag names of which the pattern matches the second only.
C27_Witness ==
  /\ narrowed # <<>>
  /\ narrowed.regexp = "v(.*)"
  /\ narrowed.op = "github_tag"
  /\ narrowed.names = <<"latest", "vv2.2.0-rc1">>
  /\ narrowed.kept = <<"v2.2.0-rc1">>
  /\ ~narrowed.threw
  /\ Len(narrowed.versions) = 1

\* A channel label and the commit it was built from.
C13_Witness ==
  /\ Made("Nixpkgs", "Commit")
  /\ vmade[1].commit = "d4e5f6"
  /\ equivalent(vmade[1], vmade[2])
  /\ ~equivalent(vmade[2], vmade[1])

\* C22: with --outdated the report holds, in the order of the
\* configuration, exactly the checks whose outdated map is not empty; a
\* dependency whose upstream failed or whose usages all errored is left out.
C22_OutdatedOnly ==
  (pc = "done" /\ options.outdated) =>
    /\ {report[i].name : i \in 1..Len(report)} =
          {d \in DOMAIN checks : DOMAIN checks[d].outdated # {}}
    /\ \A i \in 1..Len(report) : report[i] = checks[report[i].name]
    /\ \A i, j \in 1..Len(report) :
          i < j => PositionIn(ObjectKeys(config.deps), report[i].name)
                     < PositionIn(ObjectKeys(config.deps), report[j].name)

C22_Witness ==
  /\ pc = "done"
  /\ options.outdated
  /\ Len(report) = 1
  /\ report[1].name = "ingress"
  /\ Len(report[1].errored) > 0
  /\ checks["nixpkgs"].upstreamNull
  /\ Len(checks["nixpkgs"].errored) = 1

\* The names a check reports as outdated and as errored.
ReportedNames(check) == <<DOMAIN check.outdated, SeqToSet(check.errored)>>

AppVersions == {Undefined, "7.7"}

\* The responses listing the same chart versions with other app versions.
Twins(response) ==
  {[ok |-> response.ok,
    entries |-> [i \in 1..Len(response.entries) |->
                   Entry(response.entries[i].main, apps[i], Undefined)]] :
     apps \in [1..Len(response.entries) -> AppVersions]}

HelmChecked == {d \in DOMAIN checks : checks[d] # NoCheck /\ config.upstream[d].type = "helm"}

\* C21: for a Helm upstream the names reported as outdated and as errored
\* are those of every check whose chart listing has the same main versions
\* with other app versions, the usages being the same.
C21_AppVersionIgnored ==
  \A d \in HelmChecked :
    \A response \in UpstreamResponses("helm") :
      upstreamResult[d] \in fetchVersionOutcomes(config.upstream[d], response) =>
        \A twin \in Twins(response) :
          \A result \in fetchVersionOutcomes(config.upstream[d], twin) :
            ReportedNames(checkVersionResult(d, config.usages[d], result, restResult[d]))
              = ReportedNames(checks[d])

C21_Witness ==
  /\ pc = "running"
  /\ "ingress" \in HelmChecked
  /\ upstreamResult["ingress"].status = "fulfilled"
  /\ upstreamResult["ingress"].value.version.app = "1.9"
  /\ \E k, l \in DOMAIN restResult["ingress"] :
       /\ k \in DOMAIN checks["ingress"].outdated
       /\ restResult["ingress"][l].status = "fulfilled"
       /\ l \notin DOMAIN checks["ingress"].outdated

\* ---------------------------------------------------------------------
\* Properties of the cache and the network-backed fetches, checked under
\* SpecCache
\* ---------------------------------------------------------------------

UrlTasks == {t \in DOMAIN tasks : tasks[t].kind = "url" /\ tasks[t].pc # "start"}

Requested(t) == \E i \in 1..Len(requests) : requests[i][1] = t

\* C16: with update unset and a body stored under the URL, fetchUrl
\* returns that body and issues no request; with update set it never
\* reads the cache and always issues the request; a body obtained from
\* the network has been written to the cache under the URL when it is
\* returned.
C16_CacheFirst ==
  \A t \in UrlTasks :
    /\ (~update /\ tasks[t].held) =>
          /\ tasks[t].pc = "done"
          /\ tasks[t].body = tasks[t].heldBody
          /\ ~Requested(t)
    /\ update =>
          /\ \A i \in 1..Len(reads) : reads[i][1] # t
          /\ Requested(t)
    /\ (tasks[t].pc = "done" /\ Requested(t)) =>
          \E i \in 1..Len(writes) : writes[i] = <<t, tasks[t].url, tasks[t].body>>

\* C17: a response whose status is not 200 makes the task fail with an
\* error carrying that status and the response body, and the step leaves
\* every cache entry as it was, whether or not update is set.
C17_Non200FailsCacheUnchanged ==
  [][\A t \in DOMAIN tasks :
       (tasks[t].pc = "text" /\ tasks[t].status # StatusOk /\ tasks'[t] # tasks[t]) =>
          /\ tasks'[t].pc = "threw"
          /\ tasks'[t].error = <<tasks[t].status, tasks[t].text>>
          /\ cacheDb' = cacheDb]_vars

C17_Witness ==
  /\ update
  /\ \E t \in UrlTasks :
       /\ tasks[t].pc = "threw"
       /\ tasks[t].error = <<404, "v1">>
       /\ tasks[t].held
       /\ tasks[t].url \in DOMAIN cacheDb
       /\ cacheDb[tasks[t].url] = "old"
  /\ tasks["nixpkgs"].pc = "threw"
  /\ tasks["nixpkgs"].error[1] = 404
  /\ NixKey \notin DOMAIN cacheDb

WritesTo(key) == {i \in 1..Len(writes) : writes[i][2] = key}

LastWrite(key) == CHOOSE i \in WritesTo(key) : \A j \in WritesTo(key) : j <= i

CacheKeys == Urls \cup {NixKey}

\* C18: under every interleaving of the fetch tasks the cache is the
\* initial map overwritten by the writes in their order: a key holds the
\* body of the last write to it, a key nobody wrote holds what it held
\* at the start, and no entry disappears.
C18_OverwriteMap ==
  /\ DOMAIN cache0 \subseteq DOMAIN cacheDb
  /\ \A key \in CacheKeys :
       IF WritesTo(key) = {}
         THEN getBody(cacheDb, key) = getBody(cache0, key)
         ELSE /\ key \in DOMAIN cacheDb
              /\ cacheDb[key] = writes[LastWrite(key)][3]

C18_Witness ==
  /\ Len(writes) = 3
  /\ writes[1][2] = UrlTags
  /\ writes[2][2] = NixKey
  /\ writes[3][2] = UrlTags
  /\ writes[1][1] # writes[3][1]
  /\ writes[1][3] = "v1"
  /\ writes[3][3] = "v2"
  /\ cache0 = (UrlTags :> "old")
  /\ cacheDb[UrlTags] = "v2"
  /\ cacheDb[NixKey] = writes[2][3]

RequestsOf(t) == {i \in 1..Len(requests) : requests[i][1] = t}

\* C20: no task issues the same request twice: a fetchUrl task issues at
\* most one request, the channel listing one per page; a request that
\* fails or is answered with a non-200 status makes the task fail, and a
\* failed task does nothing more.
C20_SingleAttempt ==
  /\ [](/\ \A i, j \in 1..Len(requests) : requests[i] = requests[j] => i = j
        /\ \A t \in DOMAIN tasks :
             IF tasks[t].kind = "url"
               THEN Cardinality(RequestsOf(t)) <= 1
               ELSE Cardinality(RequestsOf(t)) = tasks[t].page)
  /\ [][\A t \in DOMAIN tasks :
          /\ tasks[t].pc = "threw" =>
                /\ tasks'[t] = tasks[t]
                /\ \A i \in 1..Len(requests') : requests'[i][1] = t => i <= Len(requests)
          /\ (tasks[t].pc = "text" /\ tasks[t].status # StatusOk /\ tasks'[t] # tasks[t]) =>
                tasks'[t].pc = "threw"
          /\ (tasks[t].pc = "fetching" /\ tasks'[t] # tasks[t] /\ tasks'[t].pc # "text") =>
                tasks'[t].pc = "threw"]_vars

C20_Witness ==
  /\ tasks # <<>>
  /\ tasks["nixpkgs"].pc = "threw"
  /\ tasks["nixpkgs"].page = MaxPages
  /\ Cardinality(RequestsOf("nixpkgs")) = MaxPages
  /\ tasks["first"].pc = "threw"
  /\ tasks["first"].error = <<NetworkError, "">>
  /\ Cardinality(RequestsOf("first")) = 1
  /\ tasks["second"].pc = "done"
  /\ tasks["second"].url = UrlTags
  /\ Cardinality(RequestsOf("second")) = 1

\* Both fetchUrl tasks are on the same URL and have finished.
SameUrlFinished ==
  /\ tasks # <<>>
  /\ tasks["second"].url = tasks["first"].url
  /\ tasks["first"].pc \in {"done", "threw"}
  /\ tasks["second"].pc \in {"done", "threw"}

\* C29: two fetchUrl tasks on one URL that is not cached, or with update
\* set, each issue their own request, and each that succeeds writes its
\* body to the cache; when both have finished the cache holds under the
\* URL the body of the last successful response written, or what it held
\* before when both failed.
C29_NoDeduplication ==
  (SameUrlFinished /\ (update \/ UrlTags \notin DOMAIN cache0)) =>
      /\ \A t \in {"first", "second"} :
           /\ Cardinality(RequestsOf(t)) = 1
           /\ tasks[t].pc = "done" <=> \E i \in WritesTo(UrlTags) : writes[i][1] = t
           /\ tasks[t].pc = "done" =>
                \E i \in WritesTo(UrlTags) : writes[i] = <<t, UrlTags, tasks[t].text>>
      /\ IF WritesTo(UrlTags) = {}
           THEN getBody(cacheDb, UrlTags) = getBody(cache0, UrlTags)
           ELSE /\ cacheDb[UrlTags] = writes[LastWrite(UrlTags)][3]
                /\ \E t \in {"first", "second"} :
                     tasks[t].pc = "done" /\ cacheDb[UrlTags] = tasks[t].body

C29_Witness ==
  /\ SameUrlFinished
  /\ ~update
  /\ UrlTags \notin DOMAIN cache0
  /\ tasks["first"].pc = "done"
  /\ tasks["first"].body = "v1"
  /\ tasks["second"].pc = "done"
  /\ tasks["second"].body = "v2"
  /\ Len(requests) >= 2
  /\ writes[LastWrite(UrlTags)][1] = "first"
  /\ cacheDb[UrlTags] = "v1"

\* The fetchUrl tasks that found the empty string stored under their URL
\* when they consulted the cache.
FoundEmpty == {t \in UrlTasks : ~update /\ tasks[t].held /\ tasks[t].heldBody = ""}

\* C30: with update unset, a fetchUrl that finds the empty string stored
\* under its URL issues a request and, once finished, has overwritten the
\* entry; a fetchUrl that returns without a request found a non-empty
\* body.
C30_EmptyIsMiss ==
  /\ \A t \in FoundEmpty :
       /\ Requested(t)
       /\ tasks[t].pc \in {"done", "threw"} =>
            \E i \in WritesTo(tasks[t].url) : writes[i][1] = t
  /\ \A t \in UrlTasks :
       (tasks[t].pc = "done" /\ ~Requested(t)) => Truthy(tasks[t].heldBody)

\* C30, amended: the entry is overwritten when the response has status
\* 200, with the body of that response; a fetchUrl whose request fails has
\* written nothing.
C30_EmptyIsMissAmended ==
  /\ \A t \in FoundEmpty :
       /\ Requested(t)
       /\ tasks[t].pc = "done" =>
            /\ tasks[t].status = StatusOk
            /\ \E i \in WritesTo(tasks[t].url) :
                 writes[i] = <<t, tasks[t].url, tasks[t].text>>
       /\ tasks[t].pc = "threw" =>
            \A i \in WritesTo(tasks[t].url) : writes[i][1] # t
  /\ \A t \in UrlTasks :
       (tasks[t].pc = "done" /\ ~Requested(t)) => Truthy(tasks[t].heldBody)

C30_Witness ==
  /\ tasks # <<>>
  /\ "first" \in FoundEmpty
  /\ tasks["first"].pc = "done"
  /\ tasks["first"].text = "v1"
  /\ cache0[UrlTags] = ""
  /\ cacheDb[UrlTags] = "v1"
  /\ Requested("first")

\* The labels of the listing pages 1..n, in order.
Listing(n) == [k \in 1..n |-> PageLabel(k)]

NixTasks == {t \in DOMAIN tasks : tasks[t].kind = "nixpkgs"}

\* C26: after a page that carries a continuation token fetchNixpkgs
\* requests the next page with that token and writes nothing; after the
\* first page without one it stops and writes the complete listing as one
\* entry under nix-channel:nixpkgs-unstable; a failed page leaves that
\* entry as it was, and no partial listing is ever written.
C26_Pagination ==
  /\ [][\A t \in NixTasks :
          (tasks[t].pc = "text" /\ tasks[t].status = StatusOk /\ tasks'[t] # tasks[t]) =>
             IF tasks[t].token # Undefined
               THEN /\ tasks'[t].pc = "fetching"
                    /\ requests' = Append(requests, <<t, NixUrl(tasks[t].token)>>)
                    /\ cacheDb' = cacheDb
                    /\ writes' = writes
               ELSE /\ tasks'[t].pc = "done"
                    /\ requests' = requests
                    /\ cacheDb'[NixKey] = JsonStringify(Listing(tasks[t].page))
                    /\ tasks'[t].versions = Listing(tasks[t].page)
                    /\ Len(writes') = Len(writes) + 1]_vars
  /\ [](\A t \in NixTasks :
          /\ Cardinality(WritesTo(NixKey)) <= 1
          /\ \A i \in WritesTo(NixKey) :
               /\ tasks[t].pc = "done"
               /\ tasks[t].token = Undefined
               /\ writes[i][3] = JsonStringify(Listing(tasks[t].page))
          /\ tasks[t].pc = "threw" =>
               /\ WritesTo(NixKey) = {}
               /\ getBody(cacheDb, NixKey) = getBody(cache0, NixKey))

C26_Witness ==
  /\ update
  /\ NixKey \in DOMAIN cache0
  /\ \E t \in NixTasks :
       /\ tasks[t].pc = "threw"
       /\ tasks[t].page = 2
       /\ tasks[t].versions = <<ChannelA>>
       /\ tasks[t].error[1] = 404
  /\ cacheDb[NixKey] = cache0[NixKey]

\* ---------------------------------------------------------------------
\* Properties of getFile and normalizePaths, checked under SpecPaths
\* ---------------------------------------------------------------------

Normalized == fpc \in {"read", "done", "threw"} /\ context.paths # Absent /\ aliasIdx > 0

AliasKeys == {context.paths[1].alias[i][1] : i \in 1..Len(context.paths[1].alias)}

\* C14: the alias loop of normalizePaths ends for every alias table and
\* path; the path it returns contains no alias key, and with the aliases
\* ~org -> /data/org, ~base -> ~org/shared the path ~base/file.yaml
\* becomes /data/org/shared/file.yaml.
C14_AliasFixpoint ==
  /\ [](Normalized => \A key \in AliasKeys : ~Includes(newPath, key))
  /\ []((Normalized /\ context.paths = Present(ChainedPaths)
           /\ source = GithubSource("org", "repo", "file.yaml"))
          => newPath = "/data/org/shared/file.yaml")
  /\ (fpc = "normalize") ~> (fpc # "normalize")

\* A github source of the repository was normalized under the README's
\* path mapping.
ReadmeCase(owner, repo) ==
  /\ Normalized
  /\ context.paths = Present(ReadmePaths)
  /\ source.type = "github"
  /\ source.owner = owner
  /\ source.repo = repo

InCheckout(root) == newPath = root \o "/" \o source.path

FromDisk == fpc \in {"read", "done", "threw"} /\ aliasIdx > 0

Mapped == PathKey(source) \in DOMAIN context.paths[1].github

\* C19: a local source is read from disk, at its path as written without
\* a path mapping and at the alias-expanded path with one; a github
\* source with tokens is fetched over HTTP with the owner's token, else
\* the default token, whether or not a path mapping is configured; a
\* github source without tokens and with a path mapping is read from
\* disk at the normalized path of its checkout; a github source with
\* neither fails.
C19_GetFileRules ==
  fpc # "idle" =>
    /\ source.type = "local" =>
          /\ fpc # "http"
          /\ (fpc \in {"done", "threw"} => file.mode = "disk" /\ file.path = newPath)
          /\ (context.paths = Absent /\ fpc # "normalize") => newPath = source.path
          /\ (context.paths # Absent /\ fpc # "normalize") =>
                /\ \A key \in AliasKeys : ~Includes(newPath, key)
                /\ (\A key \in AliasKeys : ~Includes(source.path, key)) =>
                      newPath = source.path
    /\ (source.type = "github" /\ context.tokens # Absent) =>
          /\ fpc \in {"http", "done", "threw"}
          /\ file.mode = "http"
          /\ file.url = ContentsUrl(source)
          /\ file.token =
                IF source.owner \in DOMAIN context.tokens[1]
                  THEN context.tokens[1][source.owner]
                ELSE IF "default" \in DOMAIN context.tokens[1]
                  THEN context.tokens[1]["default"]
                ELSE Undefined
    /\ (source.type = "github" /\ context.tokens = Absent /\ context.paths # Absent) =>
          /\ fpc # "http"
          /\ Mapped => fpc \in {"normalize", "read", "done", "threw"} /\ aliasIdx > 0
          /\ (Mapped /\ fpc \in {"done", "threw"}) =>
                /\ file.mode = "disk"
                /\ file.path = newPath
                /\ \A key \in AliasKeys : ~Includes(newPath, key)
          /\ ~Mapped => fpc = "threw" /\ file.mode = "none"
    /\ (source.type = "github" /\ context.tokens = Absent /\ context.paths = Absent) =>
          /\ fpc = "threw"
          /\ file.mode = "none"
          /\ file.error = "GitHub sources require --path or --token specified"

C19_Witness ==
  /\ fpc = "done"
  /\ source = GithubSource("org", "repo", "file.yaml")
  /\ context.paths = Present(ReadmePaths)
  /\ context.tokens = Present(("org" :> "T1") @@ ("default" :> "T0"))
  /\ file.mode = "http"
  /\ file.token = "T1"

RECURSIVE OnePass(_, _, _)
\* The path after the substitutions of the alias entries from i on.
OnePass(p, alias, i) ==
  IF i > Len(alias) THEN p
  ELSE OnePass(ReplaceFrom(p, 1, alias[i][1], alias[i][2]), alias, i + 1)

RECURSIVE Expand(_, _)
\* The path after as many passes as change it.
Expand(p, alias) ==
  IF OnePass(p, alias, 1) = p THEN p ELSE Expand(OnePass(p, alias, 1), alias)

\* getFile handed the github source to normalizePaths.
GithubNormalized ==
  /\ fpc \in {"read", "done", "threw"}
  /\ source.type = "github"
  /\ context.tokens = Absent
  /\ context.paths # Absent

RepoKey == source.owner \o "/" \o source.repo

\* C24: normalizePaths on a github source throws when owner/repo has no
\* entry in the github table; otherwise what it returns is the alias
\* fixpoint of the mapped path joined with the path inside the repository.
C24_GithubMapping ==
  GithubNormalized =>
    IF RepoKey \in DOMAIN context.paths[1].github
      THEN /\ aliasIdx > 0
           /\ fpc = "threw" => file.mode = "disk"
           /\ newPath = Expand(context.paths[1].github[RepoKey] \o "/" \o source.path,
                               context.paths[1].alias)
      ELSE /\ fpc = "threw"
           /\ file.mode = "none"
           /\ file.error = "Could not resolve github path " \o RepoKey

C24_Witness ==
  /\ GithubNormalized
  /\ context.paths = Present(ChainedPaths)
  /\ source = GithubSource("org", "secret-project", "file.yaml")
  /\ fpc = "threw"
  /\ file.error = "Could not resolve github path org/secret-project"

(***************************************************************************)
(* Properties of fetchGithubCommit, checked under SpecCommit.              *)
(***************************************************************************)
\* The fetches of a private repository with no tokens configured.
PrivateNoTokens == {t \in DOMAIN tasks : tasks[t].private /\ tasks[t].tokens = Absent}

\* C25: a fetch of a private repository without tokens never issues a
\* request; when it finds no body in the cache, or update is set, it runs
\* git ls-remote, and when it returns a commit that commit is stored under
\* the URL; when it fails nothing has been stored; a later fetch without
\* update returns the stored commit without running git.
C25_PrivateFallback ==
  /\ \A t \in PrivateNoTokens :
       /\ ~Requested(t)
       /\ tasks[t].held =>
            /\ tasks[t].pc \in {"done", "threw"}
            /\ \A i \in 1..Len(writes) : writes[i][1] # t
       /\ (~tasks[t].held /\ tasks[t].pc = "done") =>
            /\ tasks[t].versions[1].kind = "Commit"
            /\ \E i \in 1..Len(writes) :
                 writes[i] = <<t, tasks[t].url,
                               "{\"sha\":\"" \o tasks[t].versions[1].main \o "\"}">>
       /\ (~tasks[t].held /\ tasks[t].pc = "threw") =>
            \A i \in 1..Len(writes) : writes[i][1] # t
  /\ (/\ PrivateNoTokens = {"first", "second"}
      /\ ~tasks["first"].held
      /\ tasks["first"].pc = "done"
      /\ ~update) =>
        /\ tasks["second"].held
        /\ tasks["second"].pc = "done"
        /\ tasks["second"].versions = tasks["first"].versions
        /\ Len(writes) = 1

====
